---- MODULE Spec2Model ----
(***************************************************************************)
(* A model of git-dumper (src/git_dumper.py): the process_tasks work queue *)
(* with its Worker processes, the task handlers (DownloadWorker,           *)
(* RecursiveDownloadWorker, FindRefsWorker, FindObjectsWorker) and the     *)
(* phases of fetch_git.                                                    *)
(*                                                                         *)
(* The specifications:                                                     *)
(*   Spec          one process_tasks run of the packs phase                *)
(*                 (DownloadWorker) or of the object-discovery phase       *)
(*                 (FindObjectsWorker);                                    *)
(*   SpecMirror    one process_tasks run of RecursiveDownloadWorker, with  *)
(*                 tasks as character strings;                             *)
(*   SpecFetch     fetch_git from the probe to the checkout;               *)
(*   SpecProbe     the probes of fetch_git, whatever the server answers;   *)
(*   SpecRerun     the tool run twice into the same directory against a    *)
(*                 server that answers the same both times;                *)
(*   SpecSanitize  sanitize_file (src/test_sanitize.py) called on a config *)
(*                 file, once and again;                                   *)
(*   SpecSite      the recursive mirror against a server that holds a few  *)
(*                 directories and files;                                  *)
(*   SpecRefs      one process_tasks run of FindRefsWorker with the refs   *)
(*                 searched in the text of the responses;                  *)
(*   SpecCalls     the text functions of the tool called once on a bounded *)
(*                 input: the base url of fetch_git, the proxy patterns of *)
(*                 main, the ref search of FindRefsWorker, the scan for    *)
(*                 hashes of fetch_git and parse_index_file of the older   *)
(*                 script src/git-dumper.py.                               *)
(***************************************************************************)
EXTENDS Integers, Sequences, FiniteSets, TLC

(***************************************************************************)
(* Bounds of the model.                                                    *)
(***************************************************************************)
\* number of distinct task identifiers (object hashes, pack paths) of a run
NumTasks == 3
\* largest number of worker processes (the jobs argument, >= 1)
MaxJobs == 2
\* longest list of hashes an object refers to
MaxRefs == 2
\* longest initial task list handed to process_tasks
MaxInit == 2
\* most links the server puts in one directory index
MaxLinks == 1
\* most tasks the server lets a recursive mirror discover
MaxMirrorTasks == 3

VARIABLES
    \* ---- process_tasks (src/git_dumper.py:155-201) ----
    worker,             \* the Worker subclass of the run
    jobs,               \* the jobs argument: the number of worker processes
    initial_tasks,      \* the initial_tasks argument (a sequence)
    done_arg,           \* the tasks_done argument (a set of already done tasks)
    cpc,                \* where the coordinator is in process_tasks
    tasks_seen,         \* set
    pending_tasks,      \* multiprocessing.Queue: sequence of <<task>> or <<>> (None)
    tasks_done,         \* multiprocessing.Queue: sequence of results (lists of tasks)
    num_pending_tasks,  \* the outstanding counter
    \* ---- Worker processes (src/git_dumper.py:114-152) ----
    wstate,             \* per worker: "new", "waiting", "running", "exited", "died"
    wtask,              \* per worker: <<task>> it is executing, or <<>>
    \* ---- the output directory ----
    objfiles,           \* object files on disk: hash -> object content
    files,              \* other files on disk: task path -> content
    written,            \* files the mirror wrote: normalised absolute paths
    \* ---- history, for the properties ----
    putCount,           \* task -> number of times put on pending_tasks
    takeCount,          \* task -> number of times a worker took it
    resultsPut,         \* task -> number of results a worker put for it
    parsedObjs,         \* objects do_task parsed successfully: <<hash, content>>
    failed,             \* tasks whose handler failed: <<task, how>>
    unhandled,          \* tasks whose object has a type the parser does not handle
    lastCall,           \* the last do_task of the mirror: task, response, answer
    \* ---- fetch_git (src/git_dumper.py:381-603) ----
    fpc,                \* where fetch_git is
    exit_status,        \* how fetch_git ended: "none", "return0", "return1",
                        \* "exit1" (sys.exit(1)), "exception"
    phases,             \* history: the phases fetch_git entered, in order
    checkouts,          \* history: the .git/config on disk at each git checkout
    headProbe,          \* history: the response to the probe of .git/HEAD and
                        \* the error message printed for it
    listingProbe,       \* history: what the probe of .git/ was answered:
                        \* "none" (not probed), "error", "listing",
                        \* "untyped" (200 without Content-Type), "other"
    \* ---- the server and the runs of the tool ----
    origin,             \* "any": the server answers as it likes; or what a
                        \* fixed server answers to each request
    run,                \* the number of the current run of the tool
    refetched,          \* history: files requested while they were on disk
    badWrites,          \* history: files written from a response that
                        \* verify_response rejects or that is HTML
    seenLog,            \* history: <<run, phase>> -> tasks_seen when the
                        \* process_tasks call of the phase returned
    \* ---- sanitize_file ----
    config,             \* the bytes of the config file on disk
    original,           \* history: the bytes before the first call
    previous,           \* history: the bytes before the last call
    passes,             \* the number of calls of sanitize_file so far
    \* ---- the text handling of main, fetch_git and FindRefsWorker ----
    call,               \* the piece of code that is run and its argument
    ret                 \* what it has come to

qvars == <<worker, jobs, initial_tasks, done_arg, cpc, tasks_seen, pending_tasks,
           tasks_done, num_pending_tasks, wstate, wtask>>
dvars == <<objfiles, files, written>>
hvars == <<putCount, takeCount, resultsPut, parsedObjs, failed, unhandled, lastCall>>
fvars == <<fpc, exit_status, phases, checkouts, headProbe, listingProbe>>
rvars == <<origin, run, refetched, badWrites, seenLog>>
svars == <<config, original, previous, passes>>
avars == <<call, ret>>
vars == <<qvars, dvars, hvars, fvars, rvars, svars, avars>>

Tasks == 1..NumTasks
\* one worker process more than jobs
Workers_OneMore == 1..(jobs + 1)
Workers == 1..jobs

\* Python's None on the pending queue, and a task on it
None == <<>>
Some(t) == <<t>>

\* a history counter
Count(f, t) == IF t \in DOMAIN f THEN f[t] ELSE 0
Inc(f, t) == IF t \in DOMAIN f THEN [f EXCEPT ![t] = @ + 1] ELSE f @@ (t :> 1)

\* sequences over S of length at most n
SeqUpTo(S, n) == UNION {[1..k -> S] : k \in 0..n}
Range(s) == {s[i] : i \in DOMAIN s}

(***************************************************************************)
(* Responses and object files.                                             *)
(***************************************************************************)
\* The content of an object file as dulwich reads it. hashes: for a commit
\* the tree then the parents, for a tree its entries, for a tag its target.
\* "garbage" is a file ShaFile.from_path cannot read (it raises).
ObjectContents ==
    {[type |-> "commit", hashes |-> h] : h \in SeqUpTo(Tasks, MaxRefs) \ {<<>>}}
    \cup {[type |-> "tree", hashes |-> h] : h \in SeqUpTo(Tasks, MaxRefs)}
    \cup {[type |-> "blob", hashes |-> <<>>]}
    \cup {[type |-> "tag", hashes |-> <<t>>] : t \in Tasks}
    \cup {[type |-> "garbage", hashes |-> <<>>]}

\* What the server answers: a status code, the Content-Length header
\* ("absent", the text "0" or the text of a positive number; "int0" is the
\* number 0, which only a test double delivers), the Content-Type header
\* ("absent", "html", "other").
StatusCodes == {200, 301, 404}
ContentLengths == {"absent", "str0", "strpos"}
ContentTypes == {"absent", "html", "other"}

\* verify_response: TRUE when the response is valid
verify_response(status_code, clen, ctype) ==
    IF status_code # 200 THEN FALSE
    ELSE IF clen # "absent" /\ clen = "int0" THEN FALSE
    ELSE IF ctype # "absent" /\ ctype = "html" THEN FALSE
    ELSE TRUE

\* verify_response: the error message (its second result), by its subject
error_message(status_code, clen, ctype) ==
    IF status_code # 200 THEN "status code"
    ELSE IF clen # "absent" /\ clen = "int0" THEN "zero-length body"
    ELSE IF ctype # "absent" /\ ctype = "html" THEN "HTML"
    ELSE "none"

\* a get_referenced_sha1 that forgets the parents of a commit
get_referenced_sha1_NoParents(obj_file) ==
    IF obj_file.type = "commit"
    THEN [kind |-> "return", result |-> <<Head(obj_file.hashes)>>]
    ELSE IF obj_file.type = "tree" THEN [kind |-> "return", result |-> obj_file.hashes]
    ELSE IF obj_file.type = "blob" THEN [kind |-> "return", result |-> <<>>]
    ELSE [kind |-> "exit", result |-> <<>>]

\* get_referenced_sha1: the list of hashes, or "exit" for sys.exit(1)
get_referenced_sha1(obj_file) ==
    IF obj_file.type = "commit" THEN [kind |-> "return", result |-> obj_file.hashes]
    ELSE IF obj_file.type = "tree" THEN [kind |-> "return", result |-> obj_file.hashes]
    ELSE IF obj_file.type = "blob" THEN [kind |-> "return", result |-> <<>>]
    ELSE [kind |-> "exit", result |-> <<>>]

\* The responses a handler can meet. err: session.get raised (a transport
\* failure after the retries). The body is the object content the server sends.
Response(err, status_code, clen, ctype, body) ==
    [err |-> err, status_code |-> status_code, clen |-> clen, ctype |-> ctype,
     body |-> body]
NoBody == [type |-> "garbage", hashes |-> <<>>]
TransportError == Response(TRUE, 200, "absent", "absent", NoBody)
\* the responses to a plain download: the body is written, never read
FileResponses ==
    {TransportError}
    \cup {Response(FALSE, s, l, t, NoBody) :
            s \in StatusCodes, l \in ContentLengths, t \in ContentTypes}
\* the responses to the download of an object
ObjectResponses ==
    FileResponses
    \cup {Response(FALSE, 200, "absent", "other", b) : b \in ObjectContents}

(***************************************************************************)
(* Task handlers. Each returns what do_task does: kind "return" with the   *)
(* list of follow-up tasks, "raise" when it raises an Exception, "exit"    *)
(* when it raises SystemExit; and the files on disk afterwards.            *)
(***************************************************************************)
\* a DownloadWorker.do_task that writes the body without verify_response
DownloadWorker_do_task_NoVerify(filepath, disk, response) ==
    IF filepath \in DOMAIN disk
    THEN [kind |-> "return", result |-> <<>>, disk |-> disk, fetched |-> FALSE]
    ELSE IF response.err
    THEN [kind |-> "raise", result |-> <<>>, disk |-> disk, fetched |-> TRUE]
    ELSE [kind |-> "return", result |-> <<>>,
          disk |-> disk @@ (filepath :> response.body), fetched |-> TRUE]

\* a DownloadWorker.do_task without the test for an existing file
DownloadWorker_do_task_NoSkip(filepath, disk, response) ==
    IF response.err
    THEN [kind |-> "raise", result |-> <<>>, disk |-> disk, fetched |-> TRUE]
    ELSE IF ~verify_response(response.status_code, response.clen, response.ctype)
    THEN [kind |-> "return", result |-> <<>>, disk |-> disk, fetched |-> TRUE]
    ELSE [kind |-> "return", result |-> <<>>,
          disk |-> (filepath :> response.body) @@ disk, fetched |-> TRUE]

\* DownloadWorker.do_task
DownloadWorker_do_task(filepath, disk, response) ==
    IF filepath \in DOMAIN disk
    THEN [kind |-> "return", result |-> <<>>, disk |-> disk, fetched |-> FALSE]
    ELSE IF response.err
    THEN [kind |-> "raise", result |-> <<>>, disk |-> disk, fetched |-> TRUE]
    ELSE IF ~verify_response(response.status_code, response.clen, response.ctype)
    THEN [kind |-> "return", result |-> <<>>, disk |-> disk, fetched |-> TRUE]
    ELSE [kind |-> "return", result |-> <<>>,
          disk |-> disk @@ (filepath :> response.body), fetched |-> TRUE]

\* a download part that returns at once when the object file is on disk
FindObjects_download_NoParse(obj, disk, response) ==
    IF obj \in DOMAIN disk
    THEN [kind |-> "return", disk |-> disk, fetched |-> FALSE]
    ELSE IF response.err
    THEN [kind |-> "raise", disk |-> disk, fetched |-> TRUE]
    ELSE IF ~verify_response(response.status_code, response.clen, response.ctype)
    THEN [kind |-> "return", disk |-> disk, fetched |-> TRUE]
    ELSE [kind |-> "parse", disk |-> disk @@ (obj :> response.body), fetched |-> TRUE]

\* FindObjectsWorker.do_task, the download part (lines 348-373): the object
\* files afterwards, and whether the handler goes on to parse
FindObjects_download(obj, disk, response) ==
    IF obj \in DOMAIN disk
    THEN [kind |-> "parse", disk |-> disk, fetched |-> FALSE]
    ELSE IF response.err
    THEN [kind |-> "raise", disk |-> disk, fetched |-> TRUE]
    ELSE IF ~verify_response(response.status_code, response.clen, response.ctype)
    THEN [kind |-> "return", disk |-> disk, fetched |-> TRUE]
    ELSE [kind |-> "parse", disk |-> disk @@ (obj :> response.body), fetched |-> TRUE]

\* FindObjectsWorker.do_task
FindObjectsWorker_do_task(obj, disk, response) ==
    LET d == FindObjects_download(obj, disk, response) IN
    IF d.kind # "parse"
    THEN [kind |-> d.kind, result |-> <<>>, disk |-> d.disk, parsed |-> FALSE,
          fetched |-> d.fetched]
    ELSE LET obj_file == d.disk[obj] IN
         IF obj_file.type = "garbage"   \* ShaFile.from_path raises
         THEN [kind |-> "raise", result |-> <<>>, disk |-> d.disk, parsed |-> FALSE,
               fetched |-> d.fetched]
         ELSE LET r == get_referenced_sha1(obj_file) IN
              [kind |-> r.kind, result |-> r.result, disk |-> d.disk,
               parsed |-> r.kind = "return", fetched |-> d.fetched]

(***************************************************************************)
(* process_tasks: the coordinator.                                         *)
(***************************************************************************)
\* an enqueue loop without the seen-set test
NotSeen_Always(task, seen) == TRUE

\* `task not in tasks_seen`
NotSeen(task, seen) == task \notin seen

\* enqueue loops that leave the outstanding counter as it is
RECURSIVE EnqueueAll_NoCount(_, _)
EnqueueAll_NoCount(q, list) ==
    IF list = <<>> THEN q
    ELSE LET task == Head(list) IN
         EnqueueAll_NoCount(
            IF NotSeen(task, q.seen)
            THEN [seen |-> q.seen \cup {task},
                  pending |-> Append(q.pending, Some(task)),
                  num |-> q.num,
                  puts |-> Inc(q.puts, task)]
            ELSE q,
            Tail(list))

\* enqueue loops that forget the tasks they have seen before
RECURSIVE EnqueueAll_Forget(_, _)
EnqueueAll_Forget(q, list) ==
    IF list = <<>> THEN q
    ELSE LET task == Head(list) IN
         EnqueueAll_Forget(
            IF NotSeen(task, q.seen)
            THEN [seen |-> {task},
                  pending |-> Append(q.pending, Some(task)),
                  num |-> q.num + 1,
                  puts |-> Inc(q.puts, task)]
            ELSE q,
            Tail(list))

\* The body of both enqueue loops (lines 167-173 and 187-193), over a list.
\* q: [seen, pending, num, puts]
RECURSIVE EnqueueAll(_, _)
EnqueueAll(q, list) ==
    IF list = <<>> THEN q
    ELSE LET task == Head(list) IN
         EnqueueAll(
            IF NotSeen(task, q.seen)
            THEN [seen |-> q.seen \cup {task},
                  pending |-> Append(q.pending, Some(task)),
                  num |-> q.num + 1,
                  puts |-> Inc(q.puts, task)]
            ELSE q,
            Tail(list))

\* a seen set that forgets the tasks_done argument
InitialSeen_Empty == {}

\* line 161: tasks_seen = set(tasks_done) if tasks_done else set()
InitialSeen == done_arg

\* lines 158-180: the early return, or the seen set, the initial tasks and
\* the start of the jobs worker processes
ProcessTasksBegin ==
    /\ cpc = "call"
    /\ IF initial_tasks = <<>>
       THEN /\ cpc' = "returned"
            /\ UNCHANGED <<tasks_seen, pending_tasks, tasks_done,
                           num_pending_tasks, wstate, wtask, putCount>>
       ELSE LET q == EnqueueAll([seen |-> InitialSeen, pending |-> <<>>, num |-> 0,
                                 puts |-> putCount], initial_tasks) IN
            /\ tasks_seen' = q.seen
            /\ pending_tasks' = q.pending
            /\ tasks_done' = <<>>
            /\ num_pending_tasks' = q.num
            /\ putCount' = q.puts
            /\ wstate' = [w \in Workers |-> "waiting"]
            /\ wtask' = [w \in Workers |-> None]
            /\ cpc' = "collect"
    /\ UNCHANGED <<svars, avars, rvars, fvars, worker, jobs, initial_tasks, done_arg, dvars, takeCount, resultsPut,
                   parsedObjs, failed, unhandled, lastCall>>

\* lines 183-193: one iteration of the collecting loop
Collect ==
    /\ cpc = "collect"
    /\ num_pending_tasks > 0
    /\ tasks_done # <<>>
    /\ LET task_result == Head(tasks_done)
           q == EnqueueAll([seen |-> tasks_seen, pending |-> pending_tasks,
                            num |-> num_pending_tasks - 1, puts |-> putCount],
                           task_result) IN
       /\ tasks_done' = Tail(tasks_done)
       /\ tasks_seen' = q.seen
       /\ pending_tasks' = q.pending
       /\ num_pending_tasks' = q.num
       /\ putCount' = q.puts
    /\ UNCHANGED <<svars, avars, rvars, fvars, worker, jobs, initial_tasks, done_arg, cpc, wstate, wtask, dvars,
                   takeCount, resultsPut, parsedObjs, failed, unhandled, lastCall>>

\* lines 195-197: the termination signal, one None per worker
SendEnd ==
    /\ cpc = "collect"
    /\ num_pending_tasks = 0
    /\ pending_tasks' = pending_tasks \o [i \in 1..jobs |-> None]
    /\ cpc' = "join"
    /\ UNCHANGED <<svars, avars, rvars, fvars, worker, jobs, initial_tasks, done_arg, tasks_seen, tasks_done,
                   num_pending_tasks, wstate, wtask, dvars, hvars>>

\* a join that does not wait for the processes
Joined_NoWait(states) == TRUE

\* p.join() returns once process p has ended
Joined(states) == \A w \in Workers : states[w] \in {"exited", "died"}

\* lines 199-201
Join ==
    /\ cpc = "join"
    /\ Joined(wstate)
    /\ cpc' = "returned"
    /\ UNCHANGED <<svars, avars, rvars, fvars, worker, jobs, initial_tasks, done_arg, tasks_seen, pending_tasks,
                   tasks_done, num_pending_tasks, wstate, wtask, dvars, hvars>>

(***************************************************************************)
(* Worker.run                                                              *)
(***************************************************************************)
\* lines 130-133: take a task; None ends the worker
Take(w) ==
    /\ wstate[w] = "waiting"
    /\ pending_tasks # <<>>
    /\ LET task == Head(pending_tasks) IN
       /\ pending_tasks' = Tail(pending_tasks)
       /\ IF task = None
          THEN /\ wstate' = [wstate EXCEPT ![w] = "exited"]
               /\ UNCHANGED <<wtask, takeCount>>
          ELSE /\ wstate' = [wstate EXCEPT ![w] = "running"]
               /\ wtask' = [wtask EXCEPT ![w] = task]
               /\ takeCount' = Inc(takeCount, task[1])
    /\ UNCHANGED <<svars, avars, rvars, fvars, worker, jobs, initial_tasks, done_arg, cpc, tasks_seen, tasks_done,
                   num_pending_tasks, dvars, putCount, resultsPut, parsedObjs,
                   failed, unhandled, lastCall>>

\* `except Exception` (line 137): what the handler's outcome becomes in run.
\* "put": the result is put on tasks_done and the worker goes on; "die": the
\* exception leaves run and the process ends.
Caught(kind) == kind = "raise"
AfterTask(out) ==
    IF out.kind = "return" THEN [next |-> "put", result |-> out.result]
    ELSE IF Caught(out.kind) THEN [next |-> "put", result |-> <<>>]
    ELSE [next |-> "die", result |-> <<>>]

\* lines 135-146 for the outcome `out` of do_task(task)
RunTask(w, task, out) ==
    LET a == AfterTask(out) IN
    /\ IF a.next = "put"
       THEN /\ tasks_done' = Append(tasks_done, a.result)
            /\ wstate' = [wstate EXCEPT ![w] = "waiting"]
            /\ resultsPut' = Inc(resultsPut, task)
       ELSE /\ wstate' = [wstate EXCEPT ![w] = "died"]
            /\ UNCHANGED <<tasks_done, resultsPut>>
    /\ wtask' = [wtask EXCEPT ![w] = None]
    /\ failed' = IF out.kind = "return" THEN failed
                 ELSE failed \cup {<<task, out.kind>>}

\* history: the handler sent a request for a file that was on disk
Refetch(fetched, onDisk, file) ==
    IF fetched /\ onDisk THEN refetched \cup {file} ELSE refetched

\* history: the handler wrote the body of a response that verify_response
\* rejects, or a body sent as text/html
BadWrite(wrote, response, file) ==
    IF /\ wrote
       /\ \/ ~verify_response(response.status_code, response.clen, response.ctype)
          \/ response.ctype = "html"
    THEN badWrites \cup {file} ELSE badWrites

\* a DownloadWorker executes its task, the server answering from `responses`
Download(w, responses) ==
    /\ wstate[w] = "running"
    /\ worker = "DownloadWorker"
    /\ \E response \in responses :
         LET task == wtask[w][1]
             out == DownloadWorker_do_task(task, files, response) IN
         /\ RunTask(w, task, out)
         /\ files' = out.disk
         /\ refetched' = Refetch(out.fetched, task \in DOMAIN files, <<"file", task>>)
         /\ badWrites' = BadWrite(out.disk # files, response, <<"file", task>>)
    /\ UNCHANGED <<svars, avars, origin, run, seenLog, fvars, worker, jobs, initial_tasks, done_arg,
                   cpc, tasks_seen, pending_tasks,
                   num_pending_tasks, objfiles, written, putCount, takeCount,
                   parsedObjs, unhandled, lastCall>>

FinishDownload(w) == Download(w, FileResponses)

\* a FindObjectsWorker executes its task, the server answering from `responses`
FindObjects(w, responses) ==
    /\ wstate[w] = "running"
    /\ worker = "FindObjectsWorker"
    /\ \E response \in responses :
         LET task == wtask[w][1]
             out == FindObjectsWorker_do_task(task, objfiles, response) IN
         /\ RunTask(w, task, out)
         /\ objfiles' = out.disk
         /\ parsedObjs' = IF out.parsed
                          THEN parsedObjs \cup {<<task, out.disk[task]>>}
                          ELSE parsedObjs
         /\ unhandled' = IF out.kind = "exit" THEN unhandled \cup {task}
                         ELSE unhandled
         /\ refetched' = Refetch(out.fetched, task \in DOMAIN objfiles,
                                 <<"object", task>>)
         /\ badWrites' = BadWrite(out.disk # objfiles, response, <<"object", task>>)
    /\ UNCHANGED <<svars, avars, origin, run, seenLog, fvars, worker, jobs, initial_tasks, done_arg,
                   cpc, tasks_seen, pending_tasks,
                   num_pending_tasks, files, written, putCount, takeCount, lastCall>>

FinishObjects(w) == FindObjects(w, ObjectResponses)

(***************************************************************************)
(* Spec: one run of process_tasks, as fetch_git calls it for the packs     *)
(* (DownloadWorker, a list that may repeat a pack) and for the objects     *)
(* (FindObjectsWorker, a set of hashes, the packed objects already done).  *)
(***************************************************************************)
NoDuplicates(s) == \A i, j \in DOMAIN s : s[i] = s[j] => i = j

InitHistory ==
    /\ putCount = <<>>
    /\ takeCount = <<>>
    /\ resultsPut = <<>>
    /\ parsedObjs = {}
    /\ failed = {}
    /\ unhandled = {}
    /\ lastCall = [called |-> FALSE]

InitQueue ==
    /\ cpc = "call"
    /\ tasks_seen = {}
    /\ pending_tasks = <<>>
    /\ tasks_done = <<>>
    /\ num_pending_tasks = 0
    /\ wstate = [w \in Workers |-> "new"]
    /\ wtask = [w \in Workers |-> None]

\* the first run of the tool
\* src/git_dumper.py never calls sanitize_file: in its runs there is no
\* sanitised file
InitConfig ==
    /\ config = <<>>
    /\ original = <<>>
    /\ previous = <<>>
    /\ passes = 0

\* no piece of text handling is run on its own
InitNoCall ==
    /\ call = [fn |-> "none"]
    /\ ret = [done |-> FALSE]

InitFirstRun ==
    /\ run = 1
    /\ refetched = {}
    /\ badWrites = {}
    /\ seenLog = <<>>

\* fetch_git is inside the one process_tasks call, the server answers as it
\* likes
InitInRun ==
    /\ fpc = "run"
    /\ exit_status = "none"
    /\ phases = <<>>
    /\ checkouts = <<>>
    /\ headProbe = [done |-> FALSE]
    /\ listingProbe = "none"
    /\ origin = "any"
    /\ InitFirstRun
    /\ InitConfig
    /\ InitNoCall

\* an empty output directory
InitDisk ==
    /\ objfiles = <<>>
    /\ files = <<>>
    /\ written = {}

Init ==
    /\ jobs \in 1..MaxJobs
    /\ InitQueue
    /\ InitHistory
    /\ InitDisk
    /\ InitInRun
    /\ \/ /\ worker = "DownloadWorker"
          /\ initial_tasks \in SeqUpTo(Tasks, MaxInit)
          /\ done_arg = {}
       \/ /\ worker = "FindObjectsWorker"
          /\ initial_tasks \in {s \in SeqUpTo(Tasks, MaxInit) : NoDuplicates(s)}
          /\ done_arg \in SUBSET Tasks

Next ==
    \/ ProcessTasksBegin
    \/ Collect
    \/ SendEnd
    \/ Join
    \/ \E w \in Workers : Take(w)
    \/ \E w \in Workers : FinishDownload(w)
    \/ \E w \in Workers : FinishObjects(w)

Spec == Init /\ [][Next]_vars

(***************************************************************************)
(* Properties of the work queue (checked under Spec).                      *)
(***************************************************************************)
\* process_tasks waits for a result that no worker will ever send
Blocked ==
    /\ cpc = "collect"
    /\ num_pending_tasks > 0
    /\ tasks_done = <<>>
    /\ \A w \in Workers : \/ wstate[w] = "died"
                          \/ wstate[w] = "waiting" /\ pending_tasks = <<>>

\* C1: a task whose handler failed, in whatever way, still has its one
\* (empty) result sent to the done channel, and process_tasks is never left
\* waiting for a result that will not come.
C1_FailedTaskStillAnswers ==
    /\ \A f \in failed : Count(resultsPut, f[1]) = 1
    /\ ~Blocked

\* C2: a run of process_tasks always goes on until it has returned: in every
\* state in which the call has not returned, some step of the coordinator or
\* of a worker is possible.
C2_RunReturns == cpc = "returned" \/ ENABLED Next

\* C3: within one run every task identifier is put on the pending channel
\* at most once.
C3_PutAtMostOnce == \A t \in DOMAIN putCount : putCount[t] <= 1

\* a run that met a task returned by itself, a task returned by two tasks
\* and a task already seen when its result came in
C3_Witness ==
    /\ cpc = "returned"
    /\ \E p \in parsedObjs : p[1] \in Range(p[2].hashes)
    /\ \E p, q \in parsedObjs :
         /\ p[1] # q[1]
         /\ Range(p[2].hashes) \cap Range(q[2].hashes) # {}
    /\ \A t \in DOMAIN putCount : putCount[t] = 1

\* C4: every enqueued task is taken by exactly one worker, once: no task is
\* taken twice, none is taken that was not enqueued, and when the run is
\* over (it returned, or no step is possible any more) none is left untaken.
C4_EachTaskExecutedOnce ==
    /\ \A t \in DOMAIN takeCount : takeCount[t] = 1 /\ Count(putCount, t) = 1
    /\ (cpc = "returned" \/ ~ENABLED Next)
          => \A t \in DOMAIN putCount : Count(takeCount, t) = 1

\* the parts of C4 that hold of the code: no task is taken twice or without
\* having been enqueued, and a run that returns has executed every task
C4_NoDoubleDispatch ==
    /\ \A t \in DOMAIN takeCount : takeCount[t] = 1 /\ Count(putCount, t) = 1
    /\ cpc = "returned" => \A t \in DOMAIN putCount : Count(takeCount, t) = 1

\* the hashes an object refers to: a commit's tree and parents, a tree's
\* entries, a tag's target, nothing for a blob
References(content) == Range(content.hashes)

\* C5: when an object-discovery run has ended, every hash that a
\* successfully parsed object refers to is in the seen set.
C5_ReferencedHashesSeen ==
    (worker = "FindObjectsWorker" /\ cpc = "returned")
       => \A p \in parsedObjs : References(p[2]) \subseteq tasks_seen

\* a finished run in which a parsed commit with a parent referred to a hash
\* that was neither an initial task nor pre-seeded
C5_Witness ==
    /\ worker = "FindObjectsWorker"
    /\ cpc = "returned"
    /\ \E p \in parsedObjs :
         /\ p[2].type = "commit"
         /\ Len(p[2].hashes) = 2
         /\ p[2].hashes[2] \notin Range(initial_tasks) \cup done_arg
         /\ p[2].hashes[2] # p[2].hashes[1]

\* C6: an object of a type the parser does not handle is skipped: its task
\* gets its (empty) result, and the worker that met it keeps running.
C6_UnhandledTypeSkipped ==
    /\ \A t \in unhandled : Count(resultsPut, t) = 1
    /\ \A w \in Workers : wstate[w] # "died"

(***************************************************************************)
(* Paths. In the mirror a task is a path as Python holds it: a string,     *)
(* here a sequence of characters. The characters are "/", "." and letters; *)
(* the letter "g" stands for the name .git, "i" for .gitignore, "a" for    *)
(* config and "H" for HEAD.                                                *)
(***************************************************************************)
\* str.endswith, str.startswith
EndsWith(s, suffix) ==
    /\ Len(suffix) <= Len(s)
    /\ SubSeq(s, Len(s) - Len(suffix) + 1, Len(s)) = suffix
StartsWith(s, prefix) ==
    /\ Len(prefix) <= Len(s)
    /\ SubSeq(s, 1, Len(prefix)) = prefix

Slash == <<"/">>

\* str.split("/"): the segments of a path
RECURSIVE Split(_)
Split(s) ==
    IF \A i \in DOMAIN s : s[i] # "/" THEN <<s>>
    ELSE LET k == CHOOSE i \in DOMAIN s :
                     s[i] = "/" /\ \A j \in 1..(i - 1) : s[j] # "/" IN
         <<SubSeq(s, 1, k - 1)>> \o Split(SubSeq(s, k + 1, Len(s)))

\* os.path.normpath of an absolute path given by its segments: empty
\* segments and "." are dropped, ".." drops the segment before it (and
\* nothing at the root)
RECURSIVE Normalise(_, _)
Normalise(stack, segments) ==
    IF segments = <<>> THEN stack
    ELSE LET seg == Head(segments) IN
         Normalise(
            IF seg = <<>> \/ seg = <<".">> THEN stack
            ELSE IF seg = <<".", ".">>
                 THEN (IF stack = <<>> THEN stack ELSE SubSeq(stack, 1, Len(stack) - 1))
                 ELSE Append(stack, seg),
            Tail(segments))

\* the output directory (the directory argument), as absolute path segments
OutputDir == << <<"o">> >>

\* os.path.abspath(os.path.join(directory, filepath)), as segments
abspath(filepath) ==
    IF StartsWith(filepath, Slash)
    THEN Normalise(<<>>, Split(filepath))
    ELSE Normalise(OutputDir, Split(filepath))

\* the directories that exist, given the files written (makedirs)
DirsOf(disk) ==
    {SubSeq(f, 1, k) : f \in disk \cup {OutputDir \o << <<"x">> >>}, k \in 0..Len(OutputDir)}
    \cup UNION {{SubSeq(f, 1, k) : k \in 0..(Len(f) - 1)} : f \in disk}

\* os.path.isfile(os.path.join(directory, filepath)); a path with a trailing
\* slash is no file. The kernel walks the path, while abspath is lexical: the
\* two agree when the directories the path goes through exist.
isfile(filepath, disk) ==
    /\ ~EndsWith(filepath, Slash)
    /\ abspath(filepath) \in disk

\* create_intermediate_dirs and open(abspath, "wb") succeed: the path is no
\* directory and no file is in the way of its directories
CanWrite(path, disk) ==
    /\ path \notin DirsOf(disk)
    /\ \A k \in 0..(Len(path) - 1) : SubSeq(path, 1, k) \notin disk

(***************************************************************************)
(* The content of the files the later steps of fetch_git read.             *)
(***************************************************************************)
\* A text file, by what the program's regular expressions find in it: the
\* ref names, the 40-digit hashes, the pack names, and (for a config file)
\* its lines. A binary file (index, pack index, pack): whether dulwich can
\* read it, the hashes of an index's entries, the objects of a pack.
Text(refs, hashes, packs, lines) ==
    [valid |-> TRUE, refs |-> refs, hashes |-> hashes, packs |-> packs,
     lines |-> lines, objects |-> <<>>]
Binary(valid, hashes, objects) ==
    [valid |-> valid, refs |-> <<>>, hashes |-> hashes, packs |-> <<>>,
     lines |-> <<>>, objects |-> objects]

\* a line `key = value` of a config file, commented out with a # or not;
\* the key in lower case
ConfigLine(key, commented) == [key |-> key, commented |-> commented]
\* the config files the server holds: a harmless one, and one that makes
\* git run a command
ConfigTexts ==
    { <<ConfigLine("bare", FALSE)>>,
      <<ConfigLine("bare", FALSE), ConfigLine("fsmonitor", FALSE)>> }

\* the destination of the task .git/config in the mirror ("a" under "g")
ConfigPath == OutputDir \o << <<"g">>, <<"a">> >>

(***************************************************************************)
(* RecursiveDownloadWorker                                                 *)
(***************************************************************************)
\* an anchor's href as urllib.parse.urlparse splits it
Href(scheme, netloc, path) == [scheme |-> scheme, netloc |-> netloc, path |-> path]

\* the hrefs the server puts in its pages
Hrefs ==
    { Href(FALSE, FALSE, <<"a">>),                              \* a
      Href(FALSE, FALSE, <<"a", "/">>),                         \* a/
      Href(FALSE, FALSE, <<>>),                                 \* ?C=N;O=D
      Href(FALSE, FALSE, <<".", ".">>),                         \* ..
      Href(FALSE, FALSE, <<".", ".", "/">>),                    \* ../
      Href(FALSE, FALSE, <<".", "/">>),                         \* ./
      Href(FALSE, FALSE, <<"/", "a">>),                         \* /a
      Href(TRUE, TRUE, <<"/", "a">>),                           \* http://h/a
      Href(FALSE, FALSE, <<".", ".", "/", ".", ".", "/", "a">>) \* ../../a
    }

\* get_indexed_files: the paths of the links that are kept
bad == { <<".">>, <<".", ".">>, <<".", ".", "/">> }
KeepLink(url) ==
    /\ url.path # <<>>
    /\ url.path \notin bad
    /\ ~StartsWith(url.path, Slash)
    /\ ~url.scheme
    /\ ~url.netloc
RECURSIVE get_indexed_files(_)
get_indexed_files(links) ==
    IF links = <<>> THEN <<>>
    ELSE (IF KeepLink(Head(links)) THEN <<Head(links).path>> ELSE <<>>)
         \o get_indexed_files(Tail(links))

\* what the server answers to the mirror
MirrorStatusCodes == {200, 301, 302, 404}
MirrorResponse(err, status_code, hasLocation, location, ctype, links) ==
    [err |-> err, status_code |-> status_code, clen |-> "absent",
     hasLocation |-> hasLocation, location |-> location, ctype |-> ctype,
     links |-> links]
\* the Location headers: none, the path with a slash, the absolute URL of
\* the path with a slash, the site's home page
Locations(filepath) ==
    { [has |-> FALSE, value |-> <<>>],
      [has |-> TRUE, value |-> filepath \o Slash],
      [has |-> TRUE, value |-> <<"h", "/">> \o filepath \o Slash],
      [has |-> TRUE, value |-> <<"/", "a">>] }
\* the pages: only a HTML page has links
Pages ==
    {[ctype |-> t, links |-> <<>>] : t \in ContentTypes}
    \cup {[ctype |-> "html", links |-> l] : l \in SeqUpTo(Hrefs, MaxLinks)}
\* a Location header comes with a 301 or a 302 only
MirrorResponses(filepath) ==
    {MirrorResponse(TRUE, 200, FALSE, <<>>, "absent", <<>>)}
    \cup {MirrorResponse(FALSE, s, FALSE, <<>>, p.ctype, p.links) :
            s \in MirrorStatusCodes, p \in Pages}
    \cup {MirrorResponse(FALSE, s, l.has, l.value, p.ctype, p.links) :
            s \in {301, 302}, l \in Locations(filepath), p \in Pages}

\* is_html: response.headers["Content-Type"] raises KeyError without the header
is_html(response) ==
    IF response.ctype = "absent" THEN "KeyError"
    ELSE IF response.ctype = "html" THEN "True" ELSE "False"

\* lines 274-278
FollowRedirect(filepath, response) ==
    /\ response.status_code \in {301, 302}
    /\ response.hasLocation
    /\ EndsWith(response.location, filepath \o Slash)

\* RecursiveDownloadWorker.do_task
RecursiveDownloadWorker_do_task(filepath, disk, response) ==
    IF isfile(filepath, disk)
    THEN [kind |-> "return", result |-> <<>>, disk |-> disk]
    ELSE IF response.err
    THEN [kind |-> "raise", result |-> <<>>, disk |-> disk]
    ELSE IF FollowRedirect(filepath, response)
    THEN [kind |-> "return", result |-> <<filepath \o Slash>>, disk |-> disk]
    ELSE IF EndsWith(filepath, Slash)
    THEN (IF is_html(response) # "True"     \* KeyError, or the assert fails
          THEN [kind |-> "raise", result |-> <<>>, disk |-> disk]
          ELSE LET filenames == get_indexed_files(response.links) IN
               [kind |-> "return",
                result |-> [i \in DOMAIN filenames |-> filepath \o filenames[i]],
                disk |-> disk])
    ELSE IF ~verify_response(response.status_code, response.clen, response.ctype)
    THEN [kind |-> "return", result |-> <<>>, disk |-> disk]
    ELSE LET path == abspath(filepath) IN
         IF ~CanWrite(path, disk)
         THEN [kind |-> "raise", result |-> <<>>, disk |-> disk]
         ELSE [kind |-> "return", result |-> <<>>, disk |-> disk \cup {path}]

\* a RecursiveDownloadWorker executes its task, the server answering from
\* `responses`, and only so that the run discovers at most `most` tasks. The
\* body of the response is kept when it becomes the file .git/config.
Mirror(w, responses, most) ==
    /\ wstate[w] = "running"
    /\ worker = "RecursiveDownloadWorker"
    /\ \E response \in responses :
         LET task == wtask[w][1]
             out == RecursiveDownloadWorker_do_task(task, written, response) IN
         /\ Cardinality(tasks_seen \cup Range(out.result)) <= most
         /\ RunTask(w, task, out)
         /\ written' = out.disk
         /\ IF ConfigPath \in out.disk \ written
            THEN \E lines \in ConfigTexts :
                   files' = (".git/config" :> Text(<<>>, {}, <<>>, lines)) @@ files
            ELSE files' = files
         /\ refetched' = Refetch(~isfile(task, written), isfile(task, written),
                                 <<"file", task>>)
         /\ badWrites' = BadWrite(out.disk # written, response, <<"file", task>>)
         /\ lastCall' = [called |-> TRUE, filepath |-> task,
                         status_code |-> response.status_code,
                         ctype |-> response.ctype,
                         hasLocation |-> ~response.err /\ response.hasLocation,
                         location |-> response.location,
                         kind |-> out.kind,
                         answer |-> AfterTask(out).result]
    /\ UNCHANGED <<svars, avars, origin, run, seenLog, fvars, worker, jobs, initial_tasks, done_arg,
                   cpc, tasks_seen, pending_tasks,
                   num_pending_tasks, objfiles, putCount, takeCount,
                   parsedObjs, unhandled>>

FinishMirror(w) ==
    /\ wstate[w] = "running"
    /\ Mirror(w, MirrorResponses(wtask[w][1]), MaxMirrorTasks)

(***************************************************************************)
(* SpecMirror: process_tasks([".git/", ".gitignore"],                      *)
(* RecursiveDownloadWorker, jobs), lines 434-439.                          *)
(***************************************************************************)
InitMirror ==
    /\ jobs \in 1..MaxJobs
    /\ InitQueue
    /\ InitHistory
    /\ InitDisk
    /\ InitInRun
    /\ worker = "RecursiveDownloadWorker"
    /\ initial_tasks = << <<"g", "/">>, <<"i">> >>
    /\ done_arg = {}

NextMirror ==
    \/ ProcessTasksBegin
    \/ Collect
    \/ SendEnd
    \/ Join
    \/ \E w \in Workers : Take(w)
    \/ \E w \in Workers : FinishMirror(w)

SpecMirror == InitMirror /\ [][NextMirror]_vars

(***************************************************************************)
(* Properties of the mirror (checked under SpecMirror).                    *)
(***************************************************************************)
\* a path lies inside the output directory
Inside(path) ==
    /\ Len(path) > Len(OutputDir)
    /\ SubSeq(path, 1, Len(OutputDir)) = OutputDir

\* C7: every file the program creates or overwrites lies inside the output
\* directory, whatever hrefs the directory indexes of the server contain.
C7_WritesInsideOutputDir == \A f \in written : Inside(f)

\* C10: a redirect from p to p/ is followed exactly once. For every task the
\* mirror handled and every 301/302 with a Location header it received for
\* it: when the task is a path p without trailing slash and the Location is
\* p/, the answer is the single follow-up p/; when the task already ends in
\* a slash (the redirect comes again for p/), and when the Location is any
\* other, the answer has no follow-up.
C10_RedirectFollowedOnce ==
    (lastCall.called /\ lastCall.status_code \in {301, 302} /\ lastCall.hasLocation)
    => LET p == lastCall.filepath IN
       IF EndsWith(p, Slash) THEN lastCall.answer = <<>>
       ELSE IF lastCall.location = p \o Slash THEN lastCall.answer = <<p \o Slash>>
       ELSE IF EndsWith(lastCall.location, p \o Slash) THEN lastCall.answer = <<p \o Slash>>
       ELSE lastCall.answer = <<>>

(***************************************************************************)
(* SpecSite: the mirror run against a site, a server that holds finitely   *)
(* many directories and files and answers every request by what is at the  *)
(* place the path of the request leads to.                                 *)
(***************************************************************************)
\* most tasks a run against a site is followed for
MaxSiteTasks == 6
\* most links of the index page of .git/
MaxSiteLinks == 2

\* the hrefs of the index pages of a site
SiteHrefs ==
    { Href(FALSE, FALSE, <<"a">>),                       \* a
      Href(FALSE, FALSE, <<"a", "/">>),                  \* a/
      Href(FALSE, FALSE, <<".", "/">>),                  \* ./
      Href(FALSE, FALSE, <<".", ".", "/">>),             \* ../
      Href(FALSE, FALSE, <<"a", "/", ".", ".", "/">>) }  \* a/../

\* a site: the links of the index page of .git/, what is at .git/a (nothing,
\* a file or a directory) and the links of the index page of that directory
Sites ==
    {[root |-> r, a |-> "none", sub |-> <<>>] : r \in SeqUpTo(SiteHrefs, MaxSiteLinks)}
    \cup {[root |-> r, a |-> "file", sub |-> <<>>] : r \in SeqUpTo(SiteHrefs, MaxSiteLinks)}
    \cup {[root |-> r, a |-> "dir", sub |-> u] :
             r \in SeqUpTo(SiteHrefs, MaxSiteLinks), u \in SeqUpTo(SiteHrefs, 1)}

\* the error page of the site, the index page of a directory, the redirect
\* of a directory asked for without the slash, a file
SiteNotFound == MirrorResponse(FALSE, 404, FALSE, <<>>, "html", <<>>)
SiteIndex(links) == MirrorResponse(FALSE, 200, FALSE, <<>>, "html", links)
SiteRedirect(filepath) == MirrorResponse(FALSE, 301, TRUE, filepath \o Slash, "html", <<>>)
SiteFile == MirrorResponse(FALSE, 200, FALSE, <<>>, "other", <<>>)

\* what the site answers to GET url/filepath (line 260): the place is found
\* by walking the path, "." staying and ".." going up
SiteAnswer(site, filepath) ==
    LET place == Normalise(<<>>, Split(filepath))
        asDir == EndsWith(filepath, Slash) IN
    IF place = << <<"g">> >>
    THEN (IF asDir THEN SiteIndex(site.root) ELSE SiteRedirect(filepath))
    ELSE IF place = << <<"g">>, <<"a">> >> /\ site.a = "dir"
    THEN (IF asDir THEN SiteIndex(site.sub) ELSE SiteRedirect(filepath))
    ELSE IF place = << <<"g">>, <<"a">> >> /\ site.a = "file" /\ ~asDir
    THEN SiteFile
    ELSE SiteNotFound

SiteMirror(w) ==
    /\ wstate[w] = "running"
    /\ Mirror(w, {SiteAnswer(origin, wtask[w][1])}, MaxSiteTasks)

InitSite ==
    /\ jobs \in 1..MaxJobs
    /\ InitQueue
    /\ InitHistory
    /\ InitDisk
    /\ fpc = "run"
    /\ exit_status = "none"
    /\ phases = <<>>
    /\ checkouts = <<>>
    /\ headProbe = [done |-> FALSE]
    /\ listingProbe = "none"
    /\ origin \in Sites
    /\ InitFirstRun
    /\ InitConfig
    /\ InitNoCall
    /\ worker = "RecursiveDownloadWorker"
    /\ initial_tasks = << <<"g", "/">>, <<"i">> >>
    /\ done_arg = {}

NextSite ==
    \/ ProcessTasksBegin
    \/ Collect
    \/ SendEnd
    \/ Join
    \/ \E w \in Workers : Take(w)
    \/ \E w \in Workers : SiteMirror(w)

SpecSite == InitSite /\ [][NextSite]_vars

(***************************************************************************)
(* fetch_git. Outside the mirror a task is a path, here a TLA+ string, or  *)
(* (in the object discovery) a hash. The model follows fetch_git through   *)
(* a part of its fixed task lists: two of the common files, two of the     *)
(* ref files, one pack name, one ref name.                                 *)
(***************************************************************************)
\* number of object hashes of the repository the server holds
NumFetchHashes == 2
FetchHashes == 1..NumFetchHashes

\* a ref name as the regular expression of FindRefsWorker finds it; star:
\* the name ends with "*"
RefName(path, star) == [path |-> path, star |-> star]
HeadsA == RefName("refs/heads/a", FALSE)
HeadsStar == RefName("refs/heads/*", TRUE)

\* lines 332-337: the tasks of the refs found
RECURSIVE RefTasks(_)
RefTasks(refs) ==
    IF refs = <<>> THEN <<>>
    ELSE (IF ~Head(refs).star
          THEN <<".git/" \o Head(refs).path, ".git/logs/" \o Head(refs).path>>
          ELSE <<>>)
         \o RefTasks(Tail(refs))

\* FindRefsWorker.do_task: no test for an existing file, the file is
\* (over)written
FindRefsWorker_do_task(filepath, disk, response) ==
    IF response.err
    THEN [kind |-> "raise", result |-> <<>>, disk |-> disk, wrote |-> FALSE]
    ELSE IF ~verify_response(response.status_code, response.clen, response.ctype)
    THEN [kind |-> "return", result |-> <<>>, disk |-> disk, wrote |-> FALSE]
    ELSE [kind |-> "return", result |-> RefTasks(response.body.refs),
          disk |-> (filepath :> response.body) @@ disk, wrote |-> TRUE]

\* FindRefsWorker.do_task sends its request whatever is on disk (line 309)
FindRefsWorker_fetches == TRUE

\* the names of a pack's two files
PackFile(sha1) == ".git/objects/pack/pack-" \o sha1 \o ".pack"
IdxFile(sha1) == ".git/objects/pack/pack-" \o sha1 \o ".idx"
PackNames == {"p"}

\* the objects of the pack the server holds: a tree that refers to a loose
\* object, or an annotated tag
PackContents ==
    { (1 :> [type |-> "tree", hashes |-> <<NumFetchHashes>>]),
      (1 :> [type |-> "tag", hashes |-> <<1>>]) }

\* what the server holds at a path: a well-formed file of a repository, or
\* (for the binary files) a corrupt one
Served(filepath) ==
    IF filepath = ".git/HEAD" THEN {Text(<<HeadsA>>, {}, <<>>, <<>>)}
    ELSE IF filepath = ".git/config"
    THEN {Text(<<HeadsStar>>, {}, <<>>, l) : l \in ConfigTexts}
    ELSE IF filepath = ".git/refs/heads/a" THEN {Text(<<>>, {1}, <<>>, <<>>)}
    ELSE IF filepath = ".git/logs/refs/heads/a"
    THEN {Text(<<>>, {1, NumFetchHashes}, <<>>, <<>>)}
    ELSE IF filepath = ".git/index"
    THEN {Binary(TRUE, {1}, <<>>), Binary(FALSE, {}, <<>>)}
    ELSE IF filepath = ".git/objects/info/packs"
    THEN {Text(<<>>, {}, <<"p">>, <<>>)}
    ELSE IF filepath \in {IdxFile(n) : n \in PackNames}
    THEN {Binary(TRUE, {}, <<>>), Binary(FALSE, {}, <<>>)}
    ELSE IF filepath \in {PackFile(n) : n \in PackNames}
    THEN {Binary(TRUE, {}, o) : o \in PackContents} \cup {Binary(FALSE, {}, <<>>)}
    ELSE {}

\* the responses to the download of a file: a transport failure, a 404, or
\* the file
FetchResponses(filepath) ==
    {Response(TRUE, 200, "absent", "absent", Binary(FALSE, {}, <<>>)),
     Response(FALSE, 404, "absent", "html", Binary(FALSE, {}, <<>>))}
    \cup {Response(FALSE, 200, "strpos", "other", b) : b \in Served(filepath)}

\* the loose objects the server holds, and the responses to their download
FetchObjectContents ==
    {[type |-> "blob", hashes |-> <<>>], [type |-> "tag", hashes |-> <<1>>]}
    \cup {[type |-> "tree", hashes |-> <<h>>] : h \in FetchHashes}
FetchObjectResponses ==
    {TransportError, Response(FALSE, 404, "absent", "html", NoBody)}
    \cup {Response(FALSE, 200, "strpos", "other", b) : b \in FetchObjectContents}

FetchDownload(w) == Download(w, FetchResponses(wtask[w][1]))
FetchObjects(w) == FindObjects(w, FetchObjectResponses)

\* a FindRefsWorker executes its task, the server answering from `responses`
FindRefs(w, responses) ==
    /\ wstate[w] = "running"
    /\ worker = "FindRefsWorker"
    /\ \E response \in responses :
         LET task == wtask[w][1]
             out == FindRefsWorker_do_task(task, files, response) IN
         /\ RunTask(w, task, out)
         /\ files' = out.disk
         /\ refetched' = Refetch(FindRefsWorker_fetches, task \in DOMAIN files,
                                 <<"file", task>>)
         /\ badWrites' = BadWrite(out.wrote, response, <<"file", task>>)
    /\ UNCHANGED <<svars, avars, origin, run, seenLog, fvars, worker, jobs, initial_tasks, done_arg,
                   cpc, tasks_seen, pending_tasks,
                   num_pending_tasks, objfiles, written, putCount, takeCount,
                   parsedObjs, unhandled, lastCall>>

FinishRefs(w) == FindRefs(w, FetchResponses(wtask[w][1]))

\* history: the seen set of the process_tasks call that has just returned
Logged ==
    IF cpc = "returned" THEN (<<run, fpc>> :> tasks_seen) @@ seenLog ELSE seenLog

\* fetch_git calls process_tasks(tasks, w, jobs, tasks_done=done) and enters
\* the phase. The locals of the previous call are gone, its worker processes
\* are whatever the call left them.
StartRun(w, tasks, done, phase) ==
    /\ worker' = w
    /\ initial_tasks' = tasks
    /\ done_arg' = done
    /\ cpc' = "call"
    /\ tasks_seen' = {}
    /\ pending_tasks' = <<>>
    /\ tasks_done' = <<>>
    /\ num_pending_tasks' = 0
    /\ putCount' = <<>>
    /\ takeCount' = <<>>
    /\ resultsPut' = <<>>
    /\ failed' = {}
    /\ fpc' = phase
    /\ phases' = Append(phases, phase)
    /\ seenLog' = Logged
    /\ UNCHANGED <<jobs, wstate, wtask, dvars, parsedObjs, unhandled, lastCall,
                   exit_status, checkouts, headProbe, origin, run, refetched,
                   badWrites, svars, avars>>

\* fetch_git ends without a checkout: return 1, sys.exit(1), or an
\* exception that nothing catches
EndFetch(status) ==
    /\ fpc' = "ended"
    /\ exit_status' = status
    /\ seenLog' = Logged
    /\ UNCHANGED <<svars, avars, qvars, dvars, hvars, checkouts, origin, run, refetched, badWrites>>

\* The text of .git/HEAD is a sequence of characters. str.strip() removes
\* the white space at both ends.
Whitespace == {" ", "\t", "\n", "\r", "\f"}
RECURSIVE lstrip(_)
lstrip(text) ==
    IF text # <<>> /\ Head(text) \in Whitespace THEN lstrip(Tail(text)) ELSE text
RECURSIVE rstrip(_)
rstrip(text) ==
    IF text # <<>> /\ text[Len(text)] \in Whitespace
    THEN rstrip(SubSeq(text, 1, Len(text) - 1)) ELSE text
strip(text) == rstrip(lstrip(text))

\* [0-9a-f]
HexDigits == {"0", "1", "2", "3", "4", "5", "6", "7", "8", "9",
              "a", "b", "c", "d", "e", "f"}
\* the {40} of the pattern
HashLen == 40

\* re.match(r'^(ref:.*|[0-9a-f]{40}$)', text): the first alternative needs
\* only the prefix "ref:" (".*" may be empty and the match may end before
\* the end of the text); the "$" of the second is the end of the text or
\* the place before a newline that ends it
MatchesHeadPattern(text) ==
    \/ StartsWith(text, <<"r", "e", "f", ":">>)
    \/ /\ Len(text) >= HashLen
       /\ \A i \in 1..HashLen : text[i] \in HexDigits
       /\ \/ Len(text) = HashLen
          \/ Len(text) = HashLen + 1 /\ text[HashLen + 1] = "\n"

\* line 415
HeadMatches(body) == MatchesHeadPattern(strip(body))

\* texts of .git/HEAD
Repeat(c, n) == [i \in 1..n |-> c]
RefLine == <<"r", "e", "f", ":", " ", "x">>
HeadBodies ==
    { RefLine,                                        \* "ref: x"
      RefLine \o <<"\n">>,
      <<" ">> \o RefLine \o <<" ", "\r", "\n", "\n">>,
      <<"r", "e", "f", ":", "x">>,                    \* "ref:x"
      <<"r", "e", "f", ":">>,                         \* "ref:"
      <<"r", "e", "f", ":", " ", "\n">>,              \* "ref: \n"
      RefLine \o <<"\n", "<", "p", ">">>,             \* a second line
      <<"x">> \o RefLine,
      Repeat("a", HashLen),
      Repeat("0", HashLen) \o <<"\n">>,
      <<"\n">> \o Repeat("f", HashLen) \o <<" ", " ", "\n">>,
      Repeat("a", HashLen - 1),
      Repeat("a", HashLen + 1),
      Repeat("a", HashLen - 1) \o <<"g">>,
      Repeat("A", HashLen),
      Repeat("a", HashLen) \o <<"\n", "x">>,
      Repeat("a", HashLen) \o <<" ", "x">>,
      <<>>,
      <<" ">>,
      <<"\n">>,
      <<"<", "p", ">">> }

\* what the server answers to the probe: any status and headers (the number
\* 0 as Content-Length comes from a test double only), any of the texts
ProbeResponses ==
    {Response(TRUE, 200, "absent", "absent", <<>>)}
    \cup {Response(FALSE, s, l, t, b) :
            s \in StatusCodes, l \in ContentLengths \cup {"int0"},
            t \in ContentTypes, b \in HeadBodies}

\* lines 406-421: the probe of .git/HEAD, the server answering from `responses`
ProbeHeadWith(responses) ==
    /\ fpc = "start"
    /\ UNCHANGED listingProbe
    /\ phases' = Append(phases, "probe")
    /\ \E response \in responses :
         IF response.err
         THEN /\ EndFetch("exception")
              /\ headProbe' = [done |-> TRUE, response |-> response,
                               message |-> "none"]
         ELSE IF ~verify_response(response.status_code, response.clen, response.ctype)
         THEN /\ EndFetch("return1")
              /\ headProbe' = [done |-> TRUE, response |-> response,
                               message |-> error_message(response.status_code,
                                                         response.clen, response.ctype)]
         ELSE IF ~HeadMatches(response.body)
         THEN /\ EndFetch("return1")
              /\ headProbe' = [done |-> TRUE, response |-> response,
                               message |-> "not a git HEAD file"]
         ELSE /\ fpc' = "probed"
              /\ headProbe' = [done |-> TRUE, response |-> response,
                               message |-> "none"]
              /\ UNCHANGED <<qvars, dvars, hvars, exit_status, checkouts, rvars, svars, avars>>

\* the probe within a whole run of fetch_git: the responses that differ in
\* what fetch_git does next
FetchProbeResponses ==
    {r \in ProbeResponses :
       \/ r.err
       \/ /\ r.clen = "absent"
          /\ r.ctype = "other"
          /\ r.body \in {RefLine, <<"<", "p", ">">>}}

ProbeHead == ProbeHeadWith(FetchProbeResponses)
ProbeHeadAny == ProbeHeadWith(ProbeResponses)

\* the answers to the probe of .git/
ListingResponses ==
    {MirrorResponse(TRUE, 200, FALSE, <<>>, "absent", <<>>)}
    \cup {MirrorResponse(FALSE, s, FALSE, <<>>, t, l) :
            s \in {200, 404}, t \in ContentTypes,
            l \in {<<>>, <<Href(FALSE, FALSE, <<"H">>)>>}}

\* a probe that never finds a listing
HasListing_Never(response) == IF response.status_code = 200 THEN "False" ELSE "False"

\* lines 429-432: KeyError when a 200 has no Content-Type
HasListing(response) ==
    IF response.status_code # 200 THEN "False"
    ELSE IF is_html(response) # "True" THEN is_html(response)
    ELSE IF <<"H">> \in Range(get_indexed_files(response.links)) THEN "True"
    ELSE "False"

\* two of the files of lines 448-467, two of lines 477-495
CommonFiles == <<".git/index", ".git/objects/info/packs">>
RefFiles == <<".git/HEAD", ".git/config">>

\* lines 423-439 and 446-473: the probe of .git/, then the mirror or the
\* common files
\* a response that is a directory index listing HEAD: status 200, sent as
\* HTML, with a link to HEAD among its indexed files
ListsHead(response) ==
    /\ ~response.err
    /\ response.status_code = 200
    /\ response.ctype = "html"
    /\ <<"H">> \in Range(get_indexed_files(response.links))

ProbeListingWith(responses) ==
    /\ fpc = "probed"
    /\ \E response \in responses :
         /\ listingProbe' = IF response.err THEN "error"
                            ELSE IF ListsHead(response) THEN "listing"
                            ELSE IF response.status_code = 200 /\ response.ctype = "absent"
                            THEN "untyped"
                            ELSE "other"
         /\ IF response.err \/ HasListing(response) = "KeyError"
            THEN EndFetch("exception") /\ UNCHANGED <<phases, headProbe>>
            ELSE IF HasListing(response) = "True"
            THEN StartRun("RecursiveDownloadWorker", << <<"g", "/">>, <<"i">> >>, {},
                          "mirror")
            ELSE StartRun("DownloadWorker", CommonFiles, {}, "common")

ProbeListing == ProbeListingWith(ListingResponses)

\* lines 475-502
FindRefsPhase ==
    /\ fpc = "common"
    /\ cpc = "returned"
    /\ StartRun("FindRefsWorker", RefFiles, {}, "refs")
    /\ UNCHANGED listingProbe

\* lines 514-518
RECURSIVE PackTasks(_)
PackTasks(packs) ==
    IF packs = <<>> THEN <<>>
    ELSE <<IdxFile(Head(packs)), PackFile(Head(packs))>> \o PackTasks(Tail(packs))

\* lines 504-525
FindPacksPhase ==
    /\ fpc = "refs"
    /\ cpc = "returned"
    /\ LET info_packs_path == ".git/objects/info/packs" IN
       StartRun("DownloadWorker",
                IF info_packs_path \in DOMAIN files
                THEN PackTasks(files[info_packs_path].packs) ELSE <<>>,
                {}, "packs")
    /\ UNCHANGED listingProbe

\* lines 533-557: the files scanned for hashes: four fixed ones and every
\* file under .git/refs and .git/logs (here, those of the one ref name)
ScannedFiles ==
    {".git/packed-refs", ".git/info/refs", ".git/FETCH_HEAD", ".git/ORIG_HEAD"}
    \cup Range(RefTasks(<<HeadsA>>))

\* lines 529-584: objs and packed_objs, unless dulwich raises on the index,
\* on a pack or on a pack index, or get_referenced_sha1 ends the process
FindObjectsInputs(disk) ==
    LET scanned == UNION {disk[f].hashes : f \in ScannedFiles \cap DOMAIN disk}
        index_path == ".git/index"
        hasIndex == index_path \in DOMAIN disk
        packs == {n \in PackNames : PackFile(n) \in DOMAIN disk}
        packsRead == \A n \in packs : /\ disk[PackFile(n)].valid
                                      /\ IdxFile(n) \in DOMAIN disk
                                      /\ disk[IdxFile(n)].valid
        objects == UNION {{<<h, disk[PackFile(n)].objects[h]>> :
                              h \in DOMAIN disk[PackFile(n)].objects} : n \in packs}
    IN  IF hasIndex /\ ~disk[index_path].valid
        THEN [kind |-> "raise", objs |-> {}, packed_objs |-> {}]
        ELSE IF ~packsRead
        THEN [kind |-> "raise", objs |-> {}, packed_objs |-> {}]
        ELSE IF \E o \in objects : get_referenced_sha1(o[2]).kind = "exit"
        THEN [kind |-> "exit", objs |-> {}, packed_objs |-> {}]
        ELSE [kind |-> "return",
              objs |-> scanned
                       \cup (IF hasIndex THEN disk[index_path].hashes ELSE {})
                       \cup UNION {Range(get_referenced_sha1(o[2]).result) : o \in objects},
              packed_objs |-> {o[1] : o \in objects}]

\* the orders in which Python can iterate over a set
Orderings(S) == {s \in [1..Cardinality(S) -> S] : Range(s) = S}

\* lines 527-594
FindObjectsPhase ==
    /\ fpc = "packs"
    /\ cpc = "returned"
    /\ LET in == FindObjectsInputs(files) IN
       IF in.kind = "raise" THEN EndFetch("exception") /\ UNCHANGED <<phases, headProbe, listingProbe>>
       ELSE IF in.kind = "exit" THEN EndFetch("exit1") /\ UNCHANGED <<phases, headProbe, listingProbe>>
       ELSE /\ UNCHANGED listingProbe
            /\ \E order \in Orderings(in.objs) :
                 StartRun("FindObjectsWorker", order, in.packed_objs, "objects")

\* the lines of .git/config as they are on disk
ConfigOnDisk ==
    IF ".git/config" \in DOMAIN files THEN files[".git/config"].lines ELSE <<>>

\* lines 441-444: subprocess.check_call raises when git fails
CheckoutMirror ==
    /\ fpc = "mirror"
    /\ cpc = "returned"
    /\ phases' = Append(phases, "checkout")
    /\ checkouts' = Append(checkouts, ConfigOnDisk)
    /\ UNCHANGED <<headProbe, listingProbe>>
    /\ fpc' = "ended"
    /\ \E returncode \in {0, 1} :
         exit_status' = IF returncode = 0 THEN "return0" ELSE "exception"
    /\ seenLog' = Logged
    /\ UNCHANGED <<svars, avars, qvars, dvars, hvars, origin, run, refetched, badWrites>>

\* lines 596-603: subprocess.call, the status of git is ignored
Checkout ==
    /\ fpc = "objects"
    /\ cpc = "returned"
    /\ phases' = Append(phases, "checkout")
    /\ checkouts' = Append(checkouts, ConfigOnDisk)
    /\ UNCHANGED <<headProbe, listingProbe>>
    /\ fpc' = "ended"
    /\ exit_status' = "return0"
    /\ seenLog' = Logged
    /\ UNCHANGED <<svars, avars, qvars, dvars, hvars, origin, run, refetched, badWrites>>

(***************************************************************************)
(* SpecFetch: fetch_git on an empty output directory.                      *)
(***************************************************************************)
InitFetch ==
    /\ jobs \in 1..MaxJobs
    /\ worker = "none"
    /\ initial_tasks = <<>>
    /\ done_arg = {}
    /\ cpc = "idle"
    /\ tasks_seen = {}
    /\ pending_tasks = <<>>
    /\ tasks_done = <<>>
    /\ num_pending_tasks = 0
    /\ wstate = [w \in Workers |-> "new"]
    /\ wtask = [w \in Workers |-> None]
    /\ InitHistory
    /\ InitDisk
    /\ fpc = "start"
    /\ exit_status = "none"
    /\ phases = <<>>
    /\ checkouts = <<>>
    /\ headProbe = [done |-> FALSE]
    /\ listingProbe = "none"
    /\ origin = "any"
    /\ InitFirstRun
    /\ InitConfig
    /\ InitNoCall

NextFetch ==
    \/ ProbeHead
    \/ ProbeListing
    \/ FindRefsPhase
    \/ FindPacksPhase
    \/ FindObjectsPhase
    \/ CheckoutMirror
    \/ Checkout
    \/ ProcessTasksBegin
    \/ Collect
    \/ SendEnd
    \/ Join
    \/ \E w \in Workers : Take(w)
    \/ \E w \in Workers : FetchDownload(w)
    \/ \E w \in Workers : FinishRefs(w)
    \/ \E w \in Workers : FetchObjects(w)
    \/ \E w \in Workers : FinishMirror(w)

SpecFetch == InitFetch /\ [][NextFetch]_vars

(***************************************************************************)
(* SpecProbe: the two probes of fetch_git, the server answering the probe  *)
(* of .git/HEAD with any status, headers and text.                         *)
(***************************************************************************)
NextProbe ==
    \/ ProbeHeadAny
    \/ ProbeListing

SpecProbe == InitFetch /\ [][NextProbe]_vars

(***************************************************************************)
(* SpecRerun: the tool run MaxRuns times against one server that answers   *)
(* each request the same way every time, the later runs into the output    *)
(* directory the earlier ones left. The server has no directory listing.   *)
(***************************************************************************)
\* number of runs of the tool
MaxRuns == 2

NotFound(body) == Response(FALSE, 404, "absent", "html", body)
Found(body) == Response(FALSE, 200, "strpos", "other", body)
\* an empty file: status 200, the header Content-Length: 0, no body
EmptyFound == Response(FALSE, 200, "str0", "other", Binary(FALSE, {}, <<>>))
\* a soft 404: the error page sent with status 200 as text/html
SoftNotFound(body) == Response(FALSE, 200, "strpos", "html", body)

\* the paths the runs can ask for
RerunPaths ==
    Range(CommonFiles) \cup Range(RefFiles) \cup Range(RefTasks(<<HeadsA>>))
    \cup {IdxFile(n) : n \in PackNames} \cup {PackFile(n) : n \in PackNames}

\* the well-formed files a repository can hold at a path (the pack one
\* whose objects the program handles)
RepoFile(p) ==
    {b \in Served(p) :
       /\ b.valid
       /\ \A h \in DOMAIN b.objects : b.objects[h].type = "tree"}

\* a repository: every file is there and well formed, but for at most one
\* that is missing; every loose object is there, as a blob or a tree, or
\* missing
CompleteRepos ==
    {[p \in RerunPaths |->
        IF p = ".git/config" THEN Found(c) ELSE Found(CHOOSE b \in RepoFile(p) : TRUE)] :
       c \in RepoFile(".git/config")}
RepoFiles ==
    CompleteRepos
    \cup {[f EXCEPT ![p] = NotFound(Binary(FALSE, {}, <<>>))] :
            f \in CompleteRepos, p \in RerunPaths}
    \cup {[f EXCEPT ![p] = SoftNotFound(Binary(FALSE, {}, <<>>))] :
            f \in CompleteRepos, p \in RerunPaths}
    \cup {[f EXCEPT ![p] = EmptyFound] : f \in CompleteRepos, p \in RerunPaths}
RepoObjects ==
    [FetchHashes -> {NotFound(NoBody), SoftNotFound(NoBody),
                     Found([type |-> "blob", hashes |-> <<>>]),
                     Found([type |-> "tree", hashes |-> <<NumFetchHashes>>])}]

Origins ==
    [head : {Found(RefLine)},
     listing : {MirrorResponse(FALSE, 404, FALSE, <<>>, "html", <<>>)},
     files : RepoFiles,
     objects : RepoObjects]

\* fetch_git has ended and the tool is started again on the same directory
Rerun ==
    /\ fpc = "ended"
    /\ run < MaxRuns
    /\ run' = run + 1
    /\ fpc' = "start"
    /\ exit_status' = "none"
    /\ phases' = <<>>
    /\ cpc' = "idle"
    /\ worker' = "none"
    /\ initial_tasks' = <<>>
    /\ done_arg' = {}
    /\ tasks_seen' = {}
    /\ pending_tasks' = <<>>
    /\ tasks_done' = <<>>
    /\ num_pending_tasks' = 0
    /\ wstate' = [w \in Workers |-> "new"]
    /\ wtask' = [w \in Workers |-> None]
    /\ putCount' = <<>>
    /\ takeCount' = <<>>
    /\ resultsPut' = <<>>
    /\ failed' = {}
    /\ headProbe' = [done |-> FALSE]
    /\ listingProbe' = "none"
    /\ UNCHANGED <<jobs, dvars, parsedObjs, unhandled, lastCall, checkouts,
                   origin, refetched, badWrites,
                   seenLog, svars, avars>>

RerunProbeHead == ProbeHeadWith({origin.head})
RerunProbeListing == ProbeListingWith({origin.listing})
RerunDownload(w) ==
    /\ wstate[w] = "running"
    /\ Download(w, {origin.files[wtask[w][1]]})
RerunRefs(w) ==
    /\ wstate[w] = "running"
    /\ FindRefs(w, {origin.files[wtask[w][1]]})
RerunObjects(w) ==
    /\ wstate[w] = "running"
    /\ FindObjects(w, {origin.objects[wtask[w][1]]})

InitRerun ==
    /\ jobs \in 1..MaxJobs
    /\ worker = "none"
    /\ initial_tasks = <<>>
    /\ done_arg = {}
    /\ cpc = "idle"
    /\ tasks_seen = {}
    /\ pending_tasks = <<>>
    /\ tasks_done = <<>>
    /\ num_pending_tasks = 0
    /\ wstate = [w \in Workers |-> "new"]
    /\ wtask = [w \in Workers |-> None]
    /\ InitHistory
    /\ InitDisk
    /\ fpc = "start"
    /\ exit_status = "none"
    /\ phases = <<>>
    /\ checkouts = <<>>
    /\ headProbe = [done |-> FALSE]
    /\ listingProbe = "none"
    /\ origin \in Origins
    /\ InitFirstRun
    /\ InitConfig
    /\ InitNoCall

NextRerun ==
    \/ RerunProbeHead
    \/ RerunProbeListing
    \/ FindRefsPhase
    \/ FindPacksPhase
    \/ FindObjectsPhase
    \/ Checkout
    \/ Rerun
    \/ ProcessTasksBegin
    \/ Collect
    \/ SendEnd
    \/ Join
    \/ \E w \in Workers : Take(w)
    \/ \E w \in Workers : RerunDownload(w)
    \/ \E w \in Workers : RerunRefs(w)
    \/ \E w \in Workers : RerunObjects(w)

SpecRerun == InitRerun /\ [][NextRerun]_vars

\* the phases that run tasks
TaskPhases == {"common", "refs", "packs", "objects"}

\* C11: a later run sends no request for a file that is already on disk, and
\* in each phase it ends with the same seen set as the first run.
C11_RerunFetchesNothingTwice ==
    /\ refetched = {}
    /\ \A r \in 2..MaxRuns : \A ph \in TaskPhases :
         <<r, ph>> \in DOMAIN seenLog
            => /\ <<1, ph>> \in DOMAIN seenLog
               /\ seenLog[<<r, ph>>] = seenLog[<<1, ph>>]

\* the part of C11 that holds of the code: the seen sets of a later run are
\* those of the first run
C11_SameSeenSets ==
    \A r \in 2..MaxRuns : \A ph \in TaskPhases :
       <<r, ph>> \in DOMAIN seenLog
          => /\ <<1, ph>> \in DOMAIN seenLog
             /\ seenLog[<<r, ph>>] = seenLog[<<1, ph>>]

\* DownloadWorker and FindObjectsWorker never ask for a file that is on disk
C11_OnlyRefsRefetched ==
    \A f \in refetched : f[1] = "file" /\ f[2] \in Range(RefFiles) \cup Range(RefTasks(<<HeadsA>>))

(***************************************************************************)
(* Properties of fetch_git (checked under SpecFetch).                      *)
(***************************************************************************)
\* the keys of the unsafe-key pattern (fsmonitor, sshCommand, askPass,
\* editor, pager; the pattern ignores case), and a line that matches it
UnsafeKeys == {"fsmonitor", "sshcommand", "askpass", "editor", "pager"}
MatchesUnsafe(line) == line.key \in UnsafeKeys /\ ~line.commented

\* C8: git checkout never starts while the .git/config on disk has an
\* uncommented fsmonitor, sshCommand, askPass, editor or pager line.
C8_ConfigSanitisedBeforeCheckout ==
    \A i \in DOMAIN checkouts :
       \A k \in DOMAIN checkouts[i] : ~MatchesUnsafe(checkouts[i][k])

\* the two orders of the phases: without and with a directory listing
PhaseOrder == <<"probe", "common", "refs", "packs", "objects", "checkout">>
MirrorOrder == <<"probe", "mirror", "checkout">>
IsPrefix(s, t) == Len(s) <= Len(t) /\ SubSeq(t, 1, Len(s)) = s

\* a task of the current process_tasks call is in flight: on the pending
\* channel, or with a worker that has not answered, or a worker process of
\* the call is still alive
InFlight ==
    \/ \E i \in DOMAIN pending_tasks : pending_tasks[i] # None
    \/ \E w \in Workers : wstate[w] \in {"waiting", "running"}
    \/ \E t \in DOMAIN putCount : Count(resultsPut, t) # putCount[t]

\* C9: the phases are entered in the order probe, common files, ref
\* discovery, packs, object discovery, checkout (probe, mirror, checkout
\* with a directory listing), and each phase is a barrier: whenever
\* fetch_git is between two process_tasks calls (a call has returned, or
\* the next one has been made and has not yet submitted a task), no task is
\* in flight and no worker process of a call is alive.
C9_PhasesInOrderWithBarrier ==
    /\ IsPrefix(phases, PhaseOrder) \/ IsPrefix(phases, MirrorOrder)
    /\ cpc \in {"call", "returned"} => ~InFlight

\* the object discovery is running with a task at a worker, after the three
\* phases before it each ran tasks and left files on disk
C9_Witness ==
    /\ phases = SubSeq(PhaseOrder, 1, 5)
    /\ cpc = "collect"
    /\ \E w \in Workers : wstate[w] = "running"
    /\ {".git/index", ".git/HEAD", PackFile("p")} \subseteq DOMAIN files

(***************************************************************************)
(* SpecSanitize: sanitize_file (src/test_sanitize.py, lines 18-31) called  *)
(* on a config file, once and again.  A file is a sequence of characters.  *)
(***************************************************************************)
\* most lines of a config file
MaxLines == 2
\* most calls of sanitize_file on one file
MaxPasses == 2

LF == "\n"
CR == "\r"
\* os.linesep on a POSIX system
linesep == <<LF>>

\* line 24, open(filepath, 'r+'): reading in text mode translates the line
\* ends \r\n and \r to \n
RECURSIVE decode(_)
decode(bytes) ==
    IF bytes = <<>> THEN <<>>
    ELSE IF bytes[1] = CR
         THEN IF Len(bytes) >= 2 /\ bytes[2] = LF
              THEN <<LF>> \o decode(SubSeq(bytes, 3, Len(bytes)))
              ELSE <<LF>> \o decode(Tail(bytes))
         ELSE <<bytes[1]>> \o decode(Tail(bytes))

\* line 29, f.write: writing in text mode translates \n to os.linesep
RECURSIVE encode(_)
encode(text) ==
    IF text = <<>> THEN <<>>
    ELSE (IF text[1] = LF THEN linesep ELSE <<text[1]>>) \o encode(Tail(text))

\* line 22: the keys of UNSAFE, as written
UNSAFE ==
    {<<"f", "s", "m", "o", "n", "i", "t", "o", "r">>,
     <<"s", "s", "h", "C", "o", "m", "m", "a", "n", "d">>,
     <<"a", "s", "k", "P", "a", "s", "s">>,
     <<"e", "d", "i", "t", "o", "r">>,
     <<"p", "a", "g", "e", "r">>}

UpperLetters == <<"A", "B", "C", "D", "E", "F", "G", "H", "I", "J", "K", "L", "M", "N", "O", "P", "Q", "R", "S", "T", "U", "V", "W", "X", "Y", "Z">>
LowerLetters == <<"a", "b", "c", "d", "e", "f", "g", "h", "i", "j", "k", "l", "m", "n", "o", "p", "q", "r", "s", "t", "u", "v", "w", "x", "y", "z">>
\* re.IGNORECASE: letters are compared in lower case
lower(c) ==
    IF \E i \in DOMAIN UpperLetters : UpperLetters[i] = c
    THEN LowerLetters[CHOOSE i \in DOMAIN UpperLetters : UpperLetters[i] = c]
    ELSE c

\* \s of the regular expression
RegexSpace == {" ", "\t", "\n", "\r", "\f"}

\* ^ left out of the pattern
AtLineStart_Anywhere(text, pos) == pos = pos

\* ^ with re.MULTILINE: the start of the text or the place after a \n
AtLineStart(text, pos) == pos = 1 \/ text[pos - 1] = LF

\* \s*, greedy: the first place from pos on that holds no white space
RECURSIVE SkipSpace(_, _)
SkipSpace(text, pos) ==
    IF pos <= Len(text) /\ text[pos] \in RegexSpace
    THEN SkipSpace(text, pos + 1)
    ELSE pos

\* the keys of UNSAFE that the text holds at pos, letter case ignored
KeysAt(text, pos) ==
    {k \in UNSAFE : /\ pos + Len(k) - 1 <= Len(text)
                    /\ \A i \in DOMAIN k : lower(text[pos + i - 1]) = lower(k[i])}

\* line 22, UNSAFE matched at pos: [found, key, end], key the place of the
\* key and end the place of the =
MatchAt(text, pos) ==
    LET key == SkipSpace(text, pos)
        keys == KeysAt(text, key)
        k == CHOOSE k \in keys : TRUE
        eq == SkipSpace(text, key + Len(k)) IN
    IF AtLineStart(text, pos) /\ keys # {} /\ eq <= Len(text) /\ text[eq] = "="
    THEN [found |-> TRUE, key |-> key, end |-> eq]
    ELSE [found |-> FALSE]

\* line 26, re.sub(UNSAFE, r'\1# \2\3', content, flags): every match, from
\* left to right, gets "# " put before its key
RECURSIVE sub(_, _)
sub(text, pos) ==
    IF pos > Len(text) THEN <<>>
    ELSE LET m == MatchAt(text, pos) IN
         IF m.found
         THEN SubSeq(text, pos, m.key - 1) \o <<"#", " ">>
                 \o SubSeq(text, m.key, m.end) \o sub(text, m.end + 1)
         ELSE <<text[pos]>> \o sub(text, pos + 1)

\* lines 18-31: the file is written only if the substitution changed the
\* text that was read
sanitize_file(bytes) ==
    LET content == decode(bytes)
        modified_content == sub(content, 1) IN
    IF content # modified_content THEN encode(modified_content) ELSE bytes

\* the lines of the config files, without their ends
ConfigLines ==
    {<<"[", "c", "]">>,    \* section
     <<"\t", "b", "a", "r", "e", " ", "=", " ", "0">>,    \* safe
     <<"\t", "f", "s", "m", "o", "n", "i", "t", "o", "r", " ", "=", " ", "x">>,    \* fsmonitor, indented
     <<"S", "S", "H", "C", "O", "M", "M", "A", "N", "D", "=", "x">>,    \* sshCommand in capitals, no blanks
     <<" ", " ", "a", "s", "k", "P", "a", "s", "s", " ", "=", "x">>,    \* askPass
     <<"#", " ", "e", "d", "i", "t", "o", "r", " ", "=", " ", "x">>,    \* editor, commented out already
     <<"e", "d", "i", "t", "o", "r", " ", "=", " ", "x">>,    \* editor
     <<"p", "a", "g", "e", "r", "s", " ", "=", " ", "1">>,    \* a key that only starts with pager
     <<"p", "a", "g", "e", "r">>,    \* pager with its = on the next line
     <<"=", " ", "x">>,    \* a line that starts with =
     <<>>}    \* blank line
\* the ends of the lines of a file
LineEnds == {<<LF>>, <<CR, LF>>}

\* one to MaxLines lines with the same line end, the last one with or
\* without it
RECURSIVE ConfigFilesOf(_, _)
ConfigFilesOf(n, end) ==
    IF n = 1 THEN {l \o e : l \in ConfigLines, e \in {end, <<>>}}
    ELSE {l \o end \o f : l \in ConfigLines, f \in ConfigFilesOf(n - 1, end)}
ConfigFiles ==
    UNION {ConfigFilesOf(n, end) : n \in 1..MaxLines, end \in LineEnds}

\* lines 18-31
SanitizeFile ==
    /\ passes < MaxPasses
    /\ config' = sanitize_file(config)
    /\ previous' = config
    /\ passes' = passes + 1
    /\ UNCHANGED <<original, qvars, dvars, hvars, fvars, rvars, avars>>

InitSanitize ==
    /\ jobs = 1
    /\ worker = "none"
    /\ initial_tasks = <<>>
    /\ done_arg = {}
    /\ cpc = "idle"
    /\ tasks_seen = {}
    /\ pending_tasks = <<>>
    /\ tasks_done = <<>>
    /\ num_pending_tasks = 0
    /\ wstate = [w \in Workers |-> "new"]
    /\ wtask = [w \in Workers |-> None]
    /\ InitHistory
    /\ InitDisk
    /\ fpc = "start"
    /\ exit_status = "none"
    /\ phases = <<>>
    /\ checkouts = <<>>
    /\ headProbe = [done |-> FALSE]
    /\ listingProbe = "none"
    /\ origin = "any"
    /\ InitFirstRun
    /\ InitNoCall
    /\ config \in ConfigFiles
    /\ original = config
    /\ previous = config
    /\ passes = 0

NextSanitize == SanitizeFile

SpecSanitize == InitSanitize /\ [][NextSanitize]_vars

(***************************************************************************)
(* Properties of sanitize_file (checked under SpecSanitize).               *)
(***************************************************************************)
\* text holds pat
Contains(text, pat) ==
    \E i \in 1..(Len(text) - Len(pat) + 1) : SubSeq(text, i, i + Len(pat) - 1) = pat

\* the white space inside a line
Blanks == {" ", "\t"}

RECURSIVE SkipBlanks(_, _)
SkipBlanks(line, pos) ==
    IF pos <= Len(line) /\ line[pos] \in Blanks THEN SkipBlanks(line, pos + 1) ELSE pos

\* the place where the first line of a text ends
RECURSIVE LineEnd(_, _)
LineEnd(bytes, pos) ==
    IF pos >= Len(bytes) \/ bytes[pos] = LF THEN pos ELSE LineEnd(bytes, pos + 1)

\* a line whose key, after its indentation, is one of the five keys, letter
\* case ignored, followed by =
Dangerous(line) ==
    LET key == SkipBlanks(line, 1) IN
    \E k \in UNSAFE :
       /\ key + Len(k) - 1 <= Len(line)
       /\ \A i \in DOMAIN k : lower(line[key + i - 1]) = lower(k[i])
       /\ LET eq == SkipBlanks(line, key + Len(k)) IN
          eq <= Len(line) /\ line[eq] = "="

\* the line with "# " before its key
CommentedOut(line) ==
    LET key == SkipBlanks(line, 1) IN
    SubSeq(line, 1, key - 1) \o <<"#", " ">> \o SubSeq(line, key, Len(line))

\* the file with every dangerous line commented out and every other line
\* as it is
RECURSIVE Expected(_)
Expected(bytes) ==
    IF bytes = <<>> THEN <<>>
    ELSE LET end == LineEnd(bytes, 1)
             line == SubSeq(bytes, 1, end) IN
         (IF Dangerous(line) THEN CommentedOut(line) ELSE line)
            \o Expected(SubSeq(bytes, end + 1, Len(bytes)))

\* C19: sanitize_file puts "# " before the key of every dangerous line,
\* keeps its indentation, and leaves every other line byte for byte as it
\* is; a file with no such line is not modified.
C19_DangerousLinesCommentedOnly ==
    passes >= 1 => config = Expected(previous)

\* a line of the file starts, after its indentation, with =
LineStartsWithEquals(bytes) ==
    \E i \in DOMAIN bytes :
       /\ i = 1 \/ bytes[i - 1] = LF
       /\ LET eq == SkipBlanks(bytes, i) IN eq <= Len(bytes) /\ bytes[eq] = "="

\* the part of C19 that holds of the code: the same for the files whose
\* lines end with \n and whose = are on the line of their key
C19_DangerousLinesCommentedOnlyLf ==
    (passes >= 1 /\ CR \notin Range(previous) /\ ~LineStartsWithEquals(previous))
       => config = Expected(previous)

\* C20: a second call of sanitize_file on a file leaves it as the first
\* call left it, and no call puts a second "# " before a dangerous line
\* that is commented out.
C20_SanitizeIdempotent ==
    /\ passes >= 2 => config = previous
    /\ ~Contains(config, <<"#", " ", "#">>)

\* C20's case: a file with a dangerous line and a commented dangerous line
\* has gone through two calls, the first of which changed it
C20_Witness ==
    /\ passes = 2
    /\ config # original
    /\ Contains(original, <<"#", " ", "e", "d", "i", "t", "o", "r">>)
    /\ Dangerous(SubSeq(original, 1, LineEnd(original, 1)))

(***************************************************************************)
(* Properties of the downloads (checked under SpecRerun).                  *)
(***************************************************************************)
\* C12: no file is written from a response that verify_response rejects,
\* and no body sent as text/html is written: against a server that answers
\* a missing path with status 200 and text/html nothing of it lands on disk.
C12_RejectedNeverWritten == badWrites = {}

\* a run has ended against a server that answers the missing file and a
\* missing object with a soft 404: both were asked for, neither is on disk,
\* and the other files and an object were written
C12_Witness ==
    /\ fpc = "ended"
    /\ phases = PhaseOrder
    /\ \E p \in RerunPaths :
         /\ origin.files[p] = SoftNotFound(Binary(FALSE, {}, <<>>))
         /\ <<run, "common">> \in DOMAIN seenLog
         /\ p \in seenLog[<<run, "common">>] \cup seenLog[<<run, "refs">>]
         /\ p \notin DOMAIN files
         /\ DOMAIN files # {}
    /\ \E h \in FetchHashes :
         /\ origin.objects[h] = SoftNotFound(NoBody)
         /\ h \in tasks_seen
         /\ h \notin DOMAIN objfiles
    /\ DOMAIN objfiles # {}

(***************************************************************************)
(* Properties of the preparation of the objects phase (checked under       *)
(* SpecFetch).                                                             *)
(***************************************************************************)
\* fetch_git has ended after the run that looks for packs
EndedAfterPacks == fpc = "ended" /\ "packs" \in Range(phases)

\* .git/index is on disk and dulwich cannot parse it
CorruptIndex == ".git/index" \in DOMAIN files /\ ~files[".git/index"].valid

\* a pack is on disk that dulwich cannot enumerate: the pack is corrupt, or
\* its index is missing or corrupt
CorruptPack ==
    \E n \in PackNames :
       /\ PackFile(n) \in DOMAIN files
       /\ \/ ~files[PackFile(n)].valid
          \/ IdxFile(n) \notin DOMAIN files
          \/ ~files[IdxFile(n)].valid

\* C13: a corrupt .git/index does not end the run with an exception; the
\* objects phase and the checkout still take place.
C13_CorruptIndexTolerated ==
    (EndedAfterPacks /\ CorruptIndex)
       => (exit_status # "exception" /\ "checkout" \in Range(phases))

\* C14: a pack that cannot be enumerated does not end the run with an
\* exception; the run goes on with the objects it has.
C14_CorruptPackTolerated ==
    (EndedAfterPacks /\ ~CorruptIndex /\ CorruptPack)
       => (exit_status # "exception" /\ "checkout" \in Range(phases))

(***************************************************************************)
(* Properties of the probe and of verify_response (checked under           *)
(* SpecProbe and SpecRerun).                                               *)
(***************************************************************************)
\* the probe got a response (no transport failure)
Probed == headProbe.done /\ ~headProbe.response.err

\* a response with a Content-Length header of zero, as the number 0 or as
\* the text "0"
ZeroLength(clen) == clen \in {"int0", "str0"}

\* a response that is to be rejected: not 200, zero-length, or HTML
Invalid(response) ==
    \/ response.status_code # 200
    \/ ZeroLength(response.clen)
    \/ response.ctype = "html"

\* a text that has the shape of a HEAD file: trimmed, it is "ref:" followed
\* by a target that is not empty, on a single line, or it is exactly 40
\* lowercase hexadecimal digits
HeadShape(body) ==
    LET text == strip(body) IN
    \/ /\ StartsWith(text, <<"r", "e", "f", ":">>)
       /\ strip(SubSeq(text, 5, Len(text))) # <<>>
       /\ \A i \in DOMAIN text : text[i] \notin {"\n", "\r"}
    \/ /\ Len(text) = HashLen
       /\ \A i \in DOMAIN text : text[i] \in HexDigits

\* fetch_git has returned 1 and has done nothing else
ReturnedOneOnly ==
    /\ fpc = "ended"
    /\ exit_status = "return1"
    /\ cpc = "idle"
    /\ phases = <<"probe">>
    /\ DOMAIN files = {} /\ DOMAIN objfiles = {} /\ written = {}
    /\ checkouts = <<>>

\* C15: when the response to the probe of .git/HEAD is invalid (not 200,
\* zero-length or HTML) or its body has not the shape of a HEAD file,
\* fetch_git returns 1 and starts no queue run, writes no file and runs no
\* checkout.
C15_BadProbeReturnsOne ==
    (Probed /\ (Invalid(headProbe.response) \/ ~HeadShape(headProbe.response.body)))
       => ReturnedOneOnly

\* the part of C15 that holds of the code: a probe for which fetch_git
\* prints an error returns 1 and does nothing else
C15_RejectedProbeReturnsOne ==
    (Probed /\ headProbe.message # "none") => ReturnedOneOnly

\* C16: verify_response accepts a response exactly when its status is 200,
\* it has no Content-Length header equal to 0 and its Content-Type is not
\* HTML; when it rejects, the reason is that of the first condition that
\* holds, in the order status, zero-length, HTML.
C16_ValidIffNoRejection ==
    Probed =>
       LET r == headProbe.response
           reason == IF r.status_code # 200 THEN "status code"
                     ELSE IF ZeroLength(r.clen) THEN "zero-length body"
                     ELSE IF r.ctype = "html" THEN "HTML"
                     ELSE "none" IN
       /\ verify_response(r.status_code, r.clen, r.ctype) <=> ~Invalid(r)
       /\ error_message(r.status_code, r.clen, r.ctype) = reason

\* the part of C16 that holds of the code: the same with a Content-Length
\* that is the number 0
C16_ValidIffNoRejectionNumeric ==
    Probed =>
       LET r == headProbe.response
           reason == IF r.status_code # 200 THEN "status code"
                     ELSE IF r.clen = "int0" THEN "zero-length body"
                     ELSE IF r.ctype = "html" THEN "HTML"
                     ELSE "none" IN
       /\ verify_response(r.status_code, r.clen, r.ctype)
             <=> (r.status_code = 200 /\ r.clen # "int0" /\ r.ctype # "html")
       /\ error_message(r.status_code, r.clen, r.ctype) = reason
       /\ headProbe.message \in {reason, "not a git HEAD file"}

\* C17: a file the server answers with status 200 and a Content-Length
\* header of zero (the number 0 or the text "0") is never written, and its
\* task has no follow-ups.
C17_ZeroLengthNeverWritten ==
    \A p \in RerunPaths :
       (origin.files[p].status_code = 200 /\ ZeroLength(origin.files[p].clen))
          => p \notin DOMAIN files

\* C18: the probe accepts the text of .git/HEAD if and only if it has the
\* shape of a HEAD file.
C18_HeadAcceptedIffShape ==
    (Probed /\ headProbe.message \in {"none", "not a git HEAD file"})
       => (headProbe.message = "none" <=> HeadShape(headProbe.response.body))

\* the part of C18 that holds of the code: the texts of HEAD shape are
\* accepted, and so are all other texts that start with "ref:"
C18_HeadShapeAccepted ==
    (Probed /\ headProbe.message \in {"none", "not a git HEAD file"})
       => (headProbe.message = "none"
             <=> \/ HeadShape(headProbe.response.body)
                 \/ StartsWith(strip(headProbe.response.body), <<"r", "e", "f", ":">>))

(***************************************************************************)
(* Properties of the end of fetch_git (checked under SpecFetch).           *)
(***************************************************************************)
\* fetch_git has ended after it ran git checkout
EndedAfterCheckout == fpc = "ended" /\ "checkout" \in Range(phases)

\* C21: once the probe has succeeded, the run ends with exit status 0
\* whatever the exit status of git checkout, on the mirror path and on the
\* phased path alike.
C21_CheckoutStatusIgnored ==
    EndedAfterCheckout => exit_status = "return0"

\* the part of C21 that holds of the code: the phased path ignores the
\* status of git checkout
C21_PhasedCheckoutStatusIgnored ==
    (EndedAfterCheckout /\ "mirror" \notin Range(phases)) => exit_status = "return0"

\* the seeds of the recursive mirror: .git/ and .gitignore
MirrorSeeds == << <<"g", "/">>, <<"i">> >>

\* C29: when the probe of .git/ is answered with a directory index that
\* lists HEAD, the only process_tasks call is the recursive mirror seeded
\* with .git/ and .gitignore, and the checkout follows it; no other phase
\* runs.
C29_ListingMeansMirrorOnly ==
    listingProbe = "listing" =>
       /\ Len(phases) >= 2
       /\ IsPrefix(phases, MirrorOrder)
       /\ worker = "RecursiveDownloadWorker"
       /\ initial_tasks = MirrorSeeds
       /\ fpc = "ended" => phases = MirrorOrder

\* a run that found the listing, mirrored files and ended with the checkout
C29_Witness ==
    /\ listingProbe = "listing"
    /\ fpc = "ended"
    /\ written # {}
    /\ Len(checkouts) = 1

(***************************************************************************)
(* More properties of the work queue (checked under Spec).                 *)
(***************************************************************************)
\* the sum of a history counter
RECURSIVE Total(_)
Total(f) ==
    IF DOMAIN f = {} THEN 0
    ELSE LET t == CHOOSE t \in DOMAIN f : TRUE IN
         f[t] + Total([u \in DOMAIN f \ {t} |-> f[u]])

\* the workers that are executing a task
Running == {w \in Workers : wstate[w] = "running"}

Collected == Total(resultsPut) - Len(tasks_done)

Sentinels == {i \in DOMAIN pending_tasks : pending_tasks[i] = None}

\* the end signals are put only when nothing is outstanding, no task is
\* queued behind one, and there is one for each worker (a call with no
\* initial task returns at once and starts no worker)
SentinelsOnlyAtEnd ==
    /\ Sentinels # {} => num_pending_tasks = 0
    /\ \A i \in Sentinels : \A j \in DOMAIN pending_tasks : j > i => j \in Sentinels
    /\ (cpc \in {"join", "returned"} /\ initial_tasks # <<>>)
          => Cardinality(Sentinels)
                + Cardinality({w \in Workers : wstate[w] = "exited"}) = jobs
    /\ cpc \in {"call", "collect"} => Sentinels = {}

C30_SentinelEndsWorkers ==
    /\ SentinelsOnlyAtEnd
    /\ \A w \in Workers : wstate[w] = "exited" => num_pending_tasks = 0
    /\ (cpc = "returned" /\ initial_tasks # <<>>)
          => \A w \in Workers : wstate[w] = "exited"

\* the hashes an object of one of the four git types refers to: a commit's
\* tree and parents, a tree's entries, a tag's target, nothing for a blob
ReferencedHashes(obj_file) ==
    IF obj_file.type = "blob" THEN {} ELSE Range(obj_file.hashes)

\* get_referenced_sha1 returns the referenced hashes of the object
ParsedAsReferenced(obj_file) ==
    LET r == get_referenced_sha1(obj_file) IN
    r.kind = "return" /\ Range(r.result) = ReferencedHashes(obj_file)

\* C25: for every object file a worker has downloaded and parsed, the
\* parser returns the tree and the parents of a commit, the entries of a
\* tree, the target of a tag, and nothing for a blob.
C25_ParserReturnsReferences ==
    \A obj \in DOMAIN objfiles :
       objfiles[obj].type \in {"commit", "tree", "tag", "blob"}
          => ParsedAsReferenced(objfiles[obj])

\* the part of C25 that holds of the code: commits, trees and blobs
C25_ParserReturnsReferencesNoTag ==
    /\ \A obj \in DOMAIN objfiles :
          objfiles[obj].type \in {"commit", "tree", "blob"}
             => ParsedAsReferenced(objfiles[obj])
    /\ \A p \in parsedObjs : ParsedAsReferenced(p[2])

(***************************************************************************)
(* SpecCalls: the pieces of text handling, each run on its own on a text   *)
(* (a sequence of characters): the base url of fetch_git, the --proxy      *)
(* option of main, and the search for refs of FindRefsWorker.do_task.      *)
(***************************************************************************)
\* most pieces a text is put together from
MaxPieces == 3

\* the texts put together from at most n of the pieces
RECURSIVE TextsOf(_, _)
TextsOf(pieces, n) ==
    IF n = 0 THEN {<<>>}
    ELSE TextsOf(pieces, n - 1)
         \cup {p \o t : p \in pieces, t \in TextsOf(pieces, n - 1)}

\* ---- fetch_git, lines 397-404: the base url ----
\* an rstrip that strips nothing
rstrip_slash_Nothing(url) == url

\* url.rstrip("/")
RECURSIVE rstrip_slash(_)
rstrip_slash(url) ==
    IF url # <<>> /\ url[Len(url)] = "/"
    THEN rstrip_slash(SubSeq(url, 1, Len(url) - 1))
    ELSE url

\* url[:-4] when url ends with the suffix (of four characters)
StripSuffix(url, suffix) ==
    IF EndsWith(url, suffix) THEN SubSeq(url, 1, Len(url) - 4) ELSE url

DotGit == <<".", "g", "i", "t">>
HeadName == <<"H", "E", "A", "D">>

\* lines 397-404
base_url(url) ==
    LET u1 == rstrip_slash(url)
        u2 == StripSuffix(u1, HeadName)
        u3 == rstrip_slash(u2)
        u4 == StripSuffix(u3, DotGit)
    IN  rstrip_slash(u4)

\* the pieces of the sites' urls
UrlPieces == {<<"h">>, <<"/">>, <<".">>, DotGit, HeadName}
\* the spellings of a site B: B, B/, B/.git, B/.git/, B/.git/HEAD
Spellings ==
    {<<>>, <<"/">>, <<"/">> \o DotGit, <<"/">> \o DotGit \o <<"/">>,
     <<"/">> \o DotGit \o <<"/">> \o HeadName}

UrlCalls ==
    {[fn |-> "base_url", base |-> b, arg |-> b \o sp] :
        b \in TextsOf(UrlPieces, MaxPieces), sp \in Spellings}

BaseUrl ==
    /\ call.fn = "base_url"
    /\ ~ret.done
    /\ ret' = [done |-> TRUE, value |-> base_url(call.arg)]
    /\ UNCHANGED <<call, qvars, dvars, hvars, fvars, rvars, svars>>

\* ---- main, lines 676-694: the --proxy option ----
Digits == <<"0", "1", "2", "3", "4", "5", "6", "7", "8", "9">>
IsDigit(c) == \E i \in DOMAIN Digits : Digits[i] = c
DigitValue(c) == (CHOOSE i \in DOMAIN Digits : Digits[i] = c) - 1

\* int() of a text of digits
RECURSIVE int(_)
int(text) ==
    IF text = <<>> THEN 0
    ELSE 10 * int(SubSeq(text, 1, Len(text) - 1)) + DigitValue(text[Len(text)])

\* the last place of character c in text, 0 when there is none
RECURSIVE LastIndex(_, _)
LastIndex(text, c) ==
    IF text = <<>> THEN 0
    ELSE IF text[Len(text)] = c THEN Len(text)
    ELSE LastIndex(SubSeq(text, 1, Len(text) - 1), c)

\* lines 680-683: the patterns in their order, each the text it starts with
\* and its proxy type; the rest of each pattern is (.*):(\d+)$
ProxyPatterns ==
    << [prefix |-> <<"s", "o", "c", "k", "s", "5", ":">>, proxy_type |-> "SOCKS5"],
       [prefix |-> <<"s", "o", "c", "k", "s", "4", ":">>, proxy_type |-> "SOCKS4"],
       [prefix |-> <<"h", "t", "t", "p", ":", "/", "/">>, proxy_type |-> "HTTP"],
       [prefix |-> <<>>, proxy_type |-> "SOCKS5"] >>

\* re.match(pattern, proxy): (.*) is greedy and \d+ holds no colon, so the
\* port is what follows the last colon; . matches no newline
MatchProxy(pattern, proxy) ==
    IF ~StartsWith(proxy, pattern.prefix) THEN [matched |-> FALSE]
    ELSE LET rest == SubSeq(proxy, Len(pattern.prefix) + 1, Len(proxy))
             colon == LastIndex(rest, ":")
             group1 == SubSeq(rest, 1, colon - 1)
             group2 == SubSeq(rest, colon + 1, Len(rest)) IN
         IF /\ colon > 0
            /\ group2 # <<>>
            /\ \A i \in DOMAIN group2 : IsDigit(group2[i])
            /\ \A i \in DOMAIN group1 : group1[i] # LF
         THEN [matched |-> TRUE, group1 |-> group1, group2 |-> group2]
         ELSE [matched |-> FALSE]

\* lines 677-694: the call socks.setdefaultproxy(proxy_type, addr, port) of
\* the first pattern that matches (no username, no password is passed), or
\* parser.error
RECURSIVE main_proxy(_, _)
main_proxy(proxy, n) ==
    IF n > Len(ProxyPatterns) THEN [proxy_valid |-> FALSE]
    ELSE LET m == MatchProxy(ProxyPatterns[n], proxy) IN
         IF m.matched
         THEN [proxy_valid |-> TRUE,
               proxy_type |-> ProxyPatterns[n].proxy_type,
               addr |-> m.group1,
               port |-> int(m.group2),
               auth |-> FALSE, username |-> <<>>, password |-> <<>>]
         ELSE main_proxy(proxy, n + 1)

\* the proxy specs: scheme, optional user:pass@, host, port
ProxySchemes ==
    {[name |-> "SOCKS5", text |-> <<"s", "o", "c", "k", "s", "5", ":", "/", "/">>], [name |-> "SOCKS4", text |-> <<"s", "o", "c", "k", "s", "4", ":", "/", "/">>],
     [name |-> "HTTP", text |-> <<"h", "t", "t", "p", ":", "/", "/">>], [name |-> "bare", text |-> <<>>]}
ProxyHosts == {<<"h">>, <<"h", ".", "x">>, <<"1", ".", "2">>}
ProxyPorts == {<<"1">>, <<"8", "0">>, <<"1", "0", "8", "0">>}
ProxyUsers == {<<"u">>}
ProxyPasswords == {<<"p">>, <<"p", "@", "q">>, <<"p", "/", "q">>}

ProxyCalls ==
    {[fn |-> "main_proxy", syntax |-> sc.name, auth |-> FALSE,
      username |-> <<>>, password |-> <<>>, host |-> h, port |-> pt,
      arg |-> sc.text \o h \o <<":">> \o pt] :
        sc \in ProxySchemes, h \in ProxyHosts, pt \in ProxyPorts}
    \cup
    {[fn |-> "main_proxy", syntax |-> sc.name, auth |-> TRUE,
      username |-> u, password |-> pw, host |-> h, port |-> pt,
      arg |-> sc.text \o u \o <<":">> \o pw \o <<"@">> \o h \o <<":">> \o pt] :
        sc \in ProxySchemes \ {[name |-> "bare", text |-> <<>>]},
        u \in ProxyUsers, pw \in ProxyPasswords, h \in ProxyHosts, pt \in ProxyPorts}
    \cup
    {[fn |-> "main_proxy", syntax |-> "none", auth |-> FALSE,
      username |-> <<>>, password |-> <<>>, host |-> <<>>, port |-> <<>>,
      arg |-> a] :
        a \in {<<>>, <<"h">>, <<"h", ":">>, <<"h", ":", "x">>,
               <<"s", "o", "c", "k", "s", "5", ":", "/", "/">> \o <<"h">>, <<"h", "t", "t", "p", ":", "/", "/">> \o <<"h", ":", "8", "0", "/">>}}

MainProxy ==
    /\ call.fn = "main_proxy"
    /\ ~ret.done
    /\ ret' = [done |-> TRUE, value |-> main_proxy(call.arg, 1)]
    /\ UNCHANGED <<call, qvars, dvars, hvars, fvars, rvars, svars>>

\* ---- FindRefsWorker.do_task, lines 328-339: the search for refs ----
\* [a-zA-Z0-9\-\.\_\*]
RefChars ==
    Range(UpperLetters) \cup Range(LowerLetters) \cup Range(Digits)
       \cup {"-", ".", "_", "*"}

\* the last place of the run of RefChars that starts at pos
RECURSIVE RunEnd(_, _)
RunEnd(text, pos) ==
    IF pos + 1 <= Len(text) /\ text[pos + 1] \in RefChars
    THEN RunEnd(text, pos + 1)
    ELSE pos

\* (/[a-zA-Z0-9\-\.\_\*]+)+ from pos on, greedy: the place where the last
\* group ends, pos - 1 when there is no group
RECURSIVE GroupsEnd(_, _)
GroupsEnd(text, pos) ==
    IF /\ pos + 1 <= Len(text)
       /\ text[pos] = "/"
       /\ text[pos + 1] \in RefChars
    THEN GroupsEnd(text, RunEnd(text, pos + 1) + 1)
    ELSE pos - 1

RefsName == <<"r", "e", "f", "s">>

\* the place where a match of the pattern that starts at pos ends, 0 when
\* there is none
RefMatchEnd(text, pos) ==
    IF /\ pos + 3 <= Len(text)
       /\ SubSeq(text, pos, pos + 3) = RefsName
       /\ GroupsEnd(text, pos + 4) >= pos + 4
    THEN GroupsEnd(text, pos + 4)
    ELSE 0

\* re.findall: the matches from left to right, each search starting after
\* the match before
RECURSIVE findall(_, _)
findall(text, pos) ==
    IF pos > Len(text) THEN <<>>
    ELSE LET end == RefMatchEnd(text, pos) IN
         IF end > 0
         THEN <<SubSeq(text, pos, end)>> \o findall(text, end + 1)
         ELSE findall(text, pos + 1)

\* a test that lets every ref pass
EndsWithStar_Never(ref) == ref # ref

\* ref.endswith("*")
EndsWithStar(ref) == EndsWith(ref, <<"*">>)

GitDir == <<".", "g", "i", "t", "/">>
GitLogsDir == <<".", "g", "i", "t", "/", "l", "o", "g", "s", "/">>

\* lines 330-339: the tasks for the refs of a text
RECURSIVE tasks_of(_)
tasks_of(refs) ==
    IF refs = <<>> THEN <<>>
    ELSE (IF ~EndsWithStar(Head(refs))
          THEN <<GitDir \o Head(refs), GitLogsDir \o Head(refs)>>
          ELSE <<>>)
         \o tasks_of(Tail(refs))

find_refs(text) == tasks_of(findall(text, 1))

\* the pieces of the texts searched for refs
RefPieces == {RefsName, RefsName \o <<"/">>, <<"/">>, <<"a">>, <<"*">>, <<" ">>}
\* most pieces of such a text
MaxRefPieces == 5

RefCalls == {[fn |-> "find_refs", arg |-> t] : t \in TextsOf(RefPieces, MaxRefPieces)}

FindRefsInText ==
    /\ call.fn = "find_refs"
    /\ ~ret.done
    /\ ret' = [done |-> TRUE, value |-> find_refs(call.arg)]
    /\ UNCHANGED <<call, qvars, dvars, hvars, fvars, rvars, svars>>

\* ---- fetch_git, lines 554-559: the scan of a ref or log file for hashes ----
\* [a-f0-9]{40} at pos
IsHashAt(text, pos) ==
    /\ pos >= 1
    /\ pos + HashLen - 1 <= Len(text)
    /\ \A i \in pos..(pos + HashLen - 1) : text[i] \in HexDigits

\* ($|\s) at pos: the place after it, or 0 when it does not match. "$" is
\* tried first and takes nothing: the end of the text, or the place before
\* a newline that ends the text
HashSuffixEnd(text, pos) ==
    IF pos = Len(text) + 1 THEN pos
    ELSE IF pos = Len(text) /\ text[pos] = "\n" THEN pos
    ELSE IF pos <= Len(text) /\ text[pos] \in RegexSpace THEN pos + 1
    ELSE 0

\* (^|\s)([a-f0-9]{40})($|\s) tried at pos: "^" is the start of the text
\* only (no re.MULTILINE) and takes nothing, "\s" takes one character
HashMatchAt(text, pos) ==
    IF pos = 1 /\ IsHashAt(text, 1) /\ HashSuffixEnd(text, 1 + HashLen) # 0
    THEN [matched |-> TRUE, hash |-> SubSeq(text, 1, HashLen),
          end |-> HashSuffixEnd(text, 1 + HashLen)]
    ELSE IF /\ pos <= Len(text)
            /\ text[pos] \in RegexSpace
            /\ IsHashAt(text, pos + 1)
            /\ HashSuffixEnd(text, pos + 1 + HashLen) # 0
    THEN [matched |-> TRUE, hash |-> SubSeq(text, pos + 1, pos + HashLen),
          end |-> HashSuffixEnd(text, pos + 1 + HashLen)]
    ELSE [matched |-> FALSE, hash |-> <<>>, end |-> 0]

\* re.findall: the matches from left to right, each search starting where
\* the match before it ended; objs.add of the second group of each
RECURSIVE scan_hashes(_, _)
scan_hashes(text, pos) ==
    LET starts == {p \in pos..Len(text) : HashMatchAt(text, p).matched} IN
    IF starts = {} THEN {}
    ELSE LET first == CHOOSE p \in starts : \A q \in starts : p <= q
             m == HashMatchAt(text, first) IN
         {m.hash} \cup scan_hashes(text, m.end)

\* the pieces of the texts of a ref or log file: two hashes, a hex digit,
\* another character, a space, a newline
HashA == Repeat("a", HashLen)
Hash0 == Repeat("0", HashLen)
ScanPieces == {HashA, Hash0, <<"a">>, <<"x">>, <<" ">>, <<"\n">>}
MaxScanPieces == 4
ScanCalls == {[fn |-> "scan_hashes", arg |-> t] : t \in TextsOf(ScanPieces, MaxScanPieces)}

ScanHashes ==
    /\ call.fn = "scan_hashes"
    /\ ~ret.done
    /\ ret' = [done |-> TRUE, value |-> scan_hashes(call.arg, 1)]
    /\ UNCHANGED <<call, qvars, dvars, hvars, fvars, rvars, svars>>

\* ---- parse_index_file (src/git-dumper.py, lines 49-118) ----
\* An index file is given by its version and, for each entry, the extended
\* flag and the length of the name. The bytes follow from them: the fixed
\* fields with the hash and the flags word, the extended flags word (version
\* 3, flag set), the name, and 1 to 8 NUL bytes up to the next multiple of 8.
\* the fixed fields of an entry: ten 32-bit words, the hash, the flags word
FixedLen == 62
\* the mask of the name length in the flags word
NameLenMask == 4095
\* most entries of an index file
MaxEntries == 2
\* the lengths of the names
NameLens == {1, 2, 8, 9, 10, 4094, 4095, 4096, 4097, 4102, 4103}

\* the bytes before the name
HeadLen(version, entry) == FixedLen + (IF entry.extended /\ version = 3 THEN 2 ELSE 0)

\* the bytes of an entry in the file
EntrySize(version, entry) == ((HeadLen(version, entry) + entry.len) \div 8 + 1) * 8

\* the NUL bytes after the name in the file
NulsAfterName(version, entry) ==
    EntrySize(version, entry) - HeadLen(version, entry) - entry.len

\* the name length the flags word holds (line 85)
name_len(entry) == IF entry.len < NameLenMask THEN entry.len ELSE NameLenMask

\* (8 - (entry_len % 8)) or 8
pad_len(entry_len) == IF entry_len % 8 = 0 THEN 8 ELSE 8 - (entry_len % 8)

\* lines 88-113 for an entry read from its first byte: entry_len as the
\* code counts it, the NUL bytes the code reads after the name, and the
\* bytes it consumes in all
parse_entry(version, entry) ==
    LET head == HeadLen(version, entry) IN
    IF name_len(entry) < NameLenMask
    THEN LET entry_len == head + name_len(entry) IN
         [entry_len |-> entry_len, nuls |-> pad_len(entry_len),
          consumed |-> entry_len + pad_len(entry_len)]
    ELSE LET entry_len == head + 1 IN
         [entry_len |-> entry_len, nuls |-> 1 + pad_len(entry_len),
          consumed |-> head + entry.len + 1 + pad_len(entry_len)]

\* lines 63-115, the loop over the entries. An entry that is read from its
\* first byte gives its hash. When the code reads fewer NUL bytes than the
\* file has, the next entry is read from the padding and what follows is
\* whatever the shifted bytes give ("shifted"); when it reads more, the
\* bytes of the next entry are not NUL and the assert fails ("raise"), or
\* (after the last entry) the bytes after the entries are read as padding.
RECURSIVE parse_entries(_, _, _)
parse_entries(version, entries, done) ==
    IF entries = <<>> THEN [kind |-> "return", consumed |-> done]
    ELSE LET entry == Head(entries)
             e == parse_entry(version, entry)
             nuls == NulsAfterName(version, entry) IN
         IF e.nuls = nuls
         THEN parse_entries(version, Tail(entries), Append(done, e.consumed))
         ELSE IF e.nuls < nuls
         THEN [kind |-> IF Tail(entries) = <<>> THEN "return" ELSE "shifted",
               consumed |-> Append(done, e.consumed)]
         ELSE [kind |-> IF Tail(entries) = <<>> THEN "overrun" ELSE "raise",
               consumed |-> Append(done, e.consumed)]

parse_index_file(index) == parse_entries(index.version, index.entries, <<>>)

\* the well-formed index files: the extended flag is set in version 3 only
IndexEntries(version) ==
    {[extended |-> x, len |-> l] :
        x \in (IF version = 3 THEN BOOLEAN ELSE {FALSE}), l \in NameLens}
IndexFiles ==
    UNION {{[version |-> v, entries |-> e] :
              e \in SeqUpTo(IndexEntries(v), MaxEntries) \ {<<>>}} : v \in {2, 3}}
IndexCalls == {[fn |-> "parse_index_file", arg |-> i] : i \in IndexFiles}

ParseIndexFile ==
    /\ call.fn = "parse_index_file"
    /\ ~ret.done
    /\ ret' = [done |-> TRUE, value |-> parse_index_file(call.arg)]
    /\ UNCHANGED <<call, qvars, dvars, hvars, fvars, rvars, svars>>

InitCalls ==
    /\ jobs = 1
    /\ worker = "none"
    /\ initial_tasks = <<>>
    /\ done_arg = {}
    /\ cpc = "idle"
    /\ tasks_seen = {}
    /\ pending_tasks = <<>>
    /\ tasks_done = <<>>
    /\ num_pending_tasks = 0
    /\ wstate = [w \in Workers |-> "new"]
    /\ wtask = [w \in Workers |-> None]
    /\ InitHistory
    /\ InitDisk
    /\ fpc = "start"
    /\ exit_status = "none"
    /\ phases = <<>>
    /\ checkouts = <<>>
    /\ headProbe = [done |-> FALSE]
    /\ listingProbe = "none"
    /\ origin = "any"
    /\ InitFirstRun
    /\ InitConfig
    /\ ret = [done |-> FALSE]
    /\ \/ call \in UrlCalls
       \/ call \in ProxyCalls
       \/ call \in RefCalls
       \/ call \in ScanCalls
       \/ call \in IndexCalls

NextCalls ==
    \/ BaseUrl
    \/ MainProxy
    \/ FindRefsInText
    \/ ScanHashes
    \/ ParseIndexFile

SpecCalls == InitCalls /\ [][NextCalls]_vars

(***************************************************************************)
(* SpecRefs: one process_tasks run of FindRefsWorker with the tasks as     *)
(* character strings and the refs found by the search in the text of the   *)
(* response.                                                               *)
(***************************************************************************)
\* the texts the server sends: nothing, a ref, the ref spelt in two ways
RefA == RefsName \o <<"/", "a">>
RefDotA == RefsName \o <<"/", ".", "/", "a">>
RefTexts == {<<>>, RefA, RefA \o <<" ">> \o RefDotA}

\* the responses to a FindRefsWorker: a 404, or a text
RefResponses ==
    {Response(FALSE, 404, "absent", "html", <<>>)}
    \cup {Response(FALSE, 200, "strpos", "other", t) : t \in RefTexts}

\* FindRefsWorker.do_task (lines 308-339) on character strings: the files
\* written are the set of their absolute paths
FindRefsWorker_do_task_text(filepath, disk, response) ==
    IF ~verify_response(response.status_code, response.clen, response.ctype)
    THEN [kind |-> "return", result |-> <<>>, disk |-> disk]
    ELSE [kind |-> "return", result |-> find_refs(response.body),
          disk |-> disk \cup {abspath(filepath)}]

FindRefsText(w) ==
    /\ wstate[w] = "running"
    /\ worker = "FindRefsWorker"
    /\ \E response \in RefResponses :
         LET task == wtask[w][1]
             out == FindRefsWorker_do_task_text(task, written, response) IN
         /\ RunTask(w, task, out)
         /\ written' = out.disk
    /\ UNCHANGED <<svars, avars, rvars, fvars, worker, jobs, initial_tasks, done_arg,
                   cpc, tasks_seen, pending_tasks, num_pending_tasks, objfiles,
                   files, putCount, takeCount, parsedObjs, unhandled, lastCall>>

\* lines 477-502: the run starts from .git/HEAD (of the files of the list)
InitRefs ==
    /\ jobs \in 1..MaxJobs
    /\ InitQueue
    /\ InitHistory
    /\ InitDisk
    /\ InitInRun
    /\ worker = "FindRefsWorker"
    /\ initial_tasks = << GitDir \o HeadName >>
    /\ done_arg = {}

NextRefs ==
    \/ ProcessTasksBegin
    \/ Collect
    \/ SendEnd
    \/ Join
    \/ \E w \in Workers : Take(w)
    \/ \E w \in Workers : FindRefsText(w)

SpecRefs == InitRefs /\ [][NextRefs]_vars

(***************************************************************************)
(* Properties of the text handling (checked under SpecCalls).              *)
(***************************************************************************)
\* a ref as the pattern takes it: refs, then one or more groups of a /
\* and ref characters, taken from the text
IsRefOf(ref, text) ==
    /\ StartsWith(ref, RefsName \o <<"/">>)
    /\ \A i \in 5..Len(ref) : ref[i] \in RefChars \cup {"/"}
    /\ \A i \in 5..Len(ref) : ref[i] = "/" => (i < Len(ref) /\ ref[i + 1] # "/")
    /\ Contains(text, ref)

\* the refs of the text that do not end in *
RefsKept(text) == SelectSeq(findall(text, 1), LAMBDA ref : ref[Len(ref)] # "*")

\* C26: for each ref of the text that does not end in *, in their order,
\* the handler returns .git/<ref> and .git/logs/<ref>, and nothing else;
\* no task names a ref that ends in *.
C26_TwoTasksPerRef ==
    (call.fn = "find_refs" /\ ret.done) =>
       LET tasks == ret.value
           kept == RefsKept(call.arg) IN
       /\ Len(tasks) = 2 * Len(kept)
       /\ \A k \in DOMAIN kept :
             /\ tasks[2 * k - 1] = GitDir \o kept[k]
             /\ tasks[2 * k] = GitLogsDir \o kept[k]
             /\ IsRefOf(kept[k], call.arg)
       /\ \A i \in DOMAIN tasks : tasks[i][Len(tasks[i])] # "*"

\* a text with two refs, one that ends in * and one that does not
C26_Witness ==
    /\ call.fn = "find_refs"
    /\ ret.done
    /\ Len(ret.value) = 2
    /\ Len(findall(call.arg, 1)) = 2
    /\ \E i \in DOMAIN call.arg : call.arg[i] = "*"

\* the proxy type a syntax names; bare host:port is SOCKS5
ProxyTypeOf(syntax) == IF syntax = "bare" THEN "SOCKS5" ELSE syntax

\* C27: a proxy spec in one of the four syntaxes is parsed to its proxy
\* type, its host without the slashes of the scheme and without the
\* credentials, and its port as a number; for the specs with credentials
\* the user name and the password are passed on; a spec in no syntax is
\* rejected.
C27_ProxySpecParsed ==
    (call.fn = "main_proxy" /\ ret.done) =>
       IF call.syntax = "none" THEN ~ret.value.proxy_valid
       ELSE /\ ret.value.proxy_valid
            /\ ret.value.proxy_type = ProxyTypeOf(call.syntax)
            /\ ret.value.addr = call.host
            /\ ret.value.port = int(call.port)
            /\ ret.value.auth = call.auth
            /\ call.auth => /\ ret.value.username = call.username
                            /\ ret.value.password = call.password

\* the part of C27 that holds of the code: the type and the port of every
\* spec, the host of http://host:port and of host:port, and the rejection
C27_ProxyTypeAndPort ==
    (call.fn = "main_proxy" /\ ret.done) =>
       IF call.syntax = "none" THEN ~ret.value.proxy_valid
       ELSE /\ ret.value.proxy_valid
            /\ ret.value.proxy_type = ProxyTypeOf(call.syntax)
            /\ ret.value.port = int(call.port)
            /\ (call.syntax \in {"HTTP", "bare"} /\ ~call.auth)
                  => ret.value.addr = call.host

\* C28: for every base B that does not end in /, HEAD or .git, the
\* spellings B, B/, B/.git, B/.git/ and B/.git/HEAD all have the base url
\* B, and no base url ends in /.
C28_SpellingsHaveOneBase ==
    (call.fn = "base_url" /\ ret.done) =>
       /\ ~EndsWith(ret.value, <<"/">>)
       /\ (/\ ~EndsWith(call.base, <<"/">>)
           /\ ~EndsWith(call.base, HeadName)
           /\ ~EndsWith(call.base, DotGit))
             => ret.value = call.base

\* the spelling B/.git/HEAD of a site with a path has been brought to B
C28_Witness ==
    /\ call.fn = "base_url"
    /\ ret.done
    /\ call.base = <<"h", "/", "h">>
    /\ call.arg = call.base \o <<"/">> \o DotGit \o <<"/">> \o HeadName
    /\ ret.value = call.base

(***************************************************************************)
(* Properties of the object-discovery run and its packed objects (checked  *)
(* under SpecFetch).                                                       *)
(***************************************************************************)
\* the packs on disk, as lines 570-584 read them
PacksOnDisk == {n \in PackNames : PackFile(n) \in DOMAIN files}

\* the hashes of the objects the packs on disk contain
PackedHashes == UNION {DOMAIN files[PackFile(n)].objects : n \in PacksOnDisk}

\* the hashes the objects of the packs on disk refer to
ReferencedByPacked ==
    UNION {UNION {Range(files[PackFile(n)].objects[h].hashes) :
                     h \in DOMAIN files[PackFile(n)].objects} : n \in PacksOnDisk}

InObjectsRun == fpc = "objects" /\ worker = "FindObjectsWorker"

\* C31: in the object-discovery run no hash of a packed object is put on
\* the queue or taken by a worker, as initial task or as follow-up; every
\* hash a packed object refers to that is not packed itself is put on the
\* queue when the run starts and has been executed when the run returns.
C31_PackedNeverFetched ==
    InObjectsRun =>
       /\ \A h \in PackedHashes :
             Count(putCount, h) = 0 /\ Count(takeCount, h) = 0
       /\ cpc # "call" =>
             \A h \in ReferencedByPacked \ PackedHashes : Count(putCount, h) = 1
       /\ cpc = "returned" =>
             \A h \in ReferencedByPacked \ PackedHashes : Count(takeCount, h) = 1

\* the run has returned; a packed hash was an initial task and a follow-up
\* of a loose object, and a hash the packed object refers to was executed
C31_Witness ==
    /\ InObjectsRun
    /\ cpc = "returned"
    /\ \E h \in PackedHashes :
          /\ h \in Range(initial_tasks)
          /\ \E o \in parsedObjs : Count(takeCount, o[1]) = 1 /\ h \in Range(o[2].hashes)
    /\ \E h \in ReferencedByPacked \ PackedHashes : Count(takeCount, h) = 1

(***************************************************************************)
(* Properties of the handlers on a file that is already on disk (checked   *)
(* under SpecRerun).                                                       *)
(***************************************************************************)
\* worker w ends the execution of its task in this step
Executes(w) == wstate[w] = "running" /\ wstate'[w] # "running"

\* C32: a DownloadWorker that executes a task whose file is on disk sends
\* no request for it, leaves the files as they are and answers with the
\* empty list of follow-ups.
C32_ExistingFileSkipped ==
    [][\A w \in Workers :
          (worker = "DownloadWorker" /\ Executes(w) /\ wtask[w][1] \in DOMAIN files)
             => /\ files' = files
                /\ <<"file", wtask[w][1]>> \notin refetched'
                /\ tasks_done' = Append(tasks_done, <<>>)]_vars

\* in the second run a DownloadWorker has answered for a file that the
\* first run wrote
C32_Witness ==
    /\ run = 2
    /\ worker = "DownloadWorker"
    /\ \E t \in DOMAIN files :
          /\ Count(resultsPut, t) = 1
          /\ <<1, fpc>> \in DOMAIN seenLog
          /\ t \in seenLog[<<1, fpc>>]
          /\ <<"file", t>> \notin refetched

\* what FindObjectsWorker.do_task answers for obj when the object file is
\* not on disk and the server delivers the content obj_file
AfterDownload(obj, obj_file) ==
    FindObjectsWorker_do_task(obj, <<>>, Response(FALSE, 200, "strpos", "other", obj_file))

\* C33: a FindObjectsWorker that executes a task whose object file is on
\* disk sends no request and leaves the file as it is, parses it, and
\* answers with the hashes the object refers to: the answer it gives after
\* downloading the same content.
C33_ExistingObjectParsed ==
    [][\A w \in Workers :
          (worker = "FindObjectsWorker" /\ Executes(w) /\ wtask[w][1] \in DOMAIN objfiles)
             => LET obj == wtask[w][1]
                    fresh == AfterDownload(obj, objfiles[obj]) IN
                /\ objfiles' = objfiles
                /\ <<"object", obj>> \notin refetched'
                /\ fresh.kind = "return" =>
                      /\ tasks_done' = Append(tasks_done, fresh.result)
                      /\ Range(fresh.result) = ReferencedHashes(objfiles[obj])
                      /\ <<obj, objfiles[obj]>> \in parsedObjs'
                /\ fresh.kind = "raise" => tasks_done' = Append(tasks_done, <<>>)
                /\ fresh.kind = "exit" => wstate'[w] = "died"]_vars

\* in the second run a FindObjectsWorker has answered for a tree that the
\* first run wrote, and the hash the tree refers to was put on the queue
C33_Witness ==
    /\ run = 2
    /\ worker = "FindObjectsWorker"
    /\ \E obj \in DOMAIN objfiles :
          /\ Count(resultsPut, obj) = 1
          /\ <<1, "objects">> \in DOMAIN seenLog
          /\ obj \in seenLog[<<1, "objects">>]
          /\ <<"object", obj>> \notin refetched
          /\ objfiles[obj].type = "tree"
          /\ \A h \in Range(objfiles[obj].hashes) : h \in tasks_seen
          /\ \E h \in Range(objfiles[obj].hashes) : h # obj

(***************************************************************************)
(* Properties of the directory tasks of the mirror (checked under          *)
(* SpecMirror).                                                            *)
(***************************************************************************)
\* the last do_task was for a directory, a path that ends in a slash
DirectoryTask == lastCall.called /\ EndsWith(lastCall.filepath, Slash)

\* C34: a directory task that is answered with another status than 200
\* (and that is no redirect: those are C10) has no follow-up, whatever
\* links the page of the response holds.
C34_BadDirectoryIndexSkipped ==
    (DirectoryTask /\ lastCall.status_code \notin {200, 301, 302})
       => lastCall.answer = <<>>

\* the part of C34 that holds of the code: a directory task whose response
\* is not sent as HTML has no follow-up, the handler raises
C34_NonHtmlDirectorySkipped ==
    (DirectoryTask /\ lastCall.kind # "none" /\ lastCall.ctype # "html"
        /\ lastCall.status_code \notin {301, 302})
       => lastCall.kind = "raise" /\ lastCall.answer = <<>>

(***************************************************************************)
(* Properties of the mirror of a site (checked under SpecSite).            *)
(***************************************************************************)
\* the places of a site: .git/ and what is at .git/a
SitePlaces(site) ==
    { << <<"g">> >> } \cup (IF site.a = "none" THEN {} ELSE { << <<"g">>, <<"a">> >> })

\* a number of tasks the site accounts for: each place asked for with and
\* without the slash, the two initial tasks, and one task for each link of
\* its index pages
SiteBound(site) == 2 * Cardinality(SitePlaces(site)) + 2 + Len(site.root) + Len(site.sub)

\* C35: the number of tasks the mirror of a site enqueues is bounded by
\* the size of the site, whatever links its index pages hold.
C35_MirrorOfSiteBounded == Cardinality(tasks_seen) <= SiteBound(origin)

\* a link that leads back to the directory of its page or to a directory
\* above it
LeadsBack(url) ==
    LET to == Normalise(<< <<"g">>, <<"x">> >>, Split(url.path)) IN
    Len(to) <= 2 /\ to = SubSeq(<< <<"g">>, <<"x">> >>, 1, Len(to))

\* the part of C35 that holds of the code: against a site none of whose
\* links leads back, the number of tasks is bounded by the size of the site
C35_MirrorBoundedWithoutLinksBack ==
    (/\ \A i \in DOMAIN origin.root : ~LeadsBack(origin.root[i])
     /\ \A j \in DOMAIN origin.sub : ~LeadsBack(origin.sub[j]))
    => C35_MirrorOfSiteBounded

(***************************************************************************)
(* Properties of the probe of .git/ (checked under SpecProbe).             *)
(***************************************************************************)
\* after the probe fetch_git is in the mirror when the answer was a listing
\* of HEAD, and in the common files otherwise
ProbeDecided ==
    /\ exit_status = "none"
    /\ fpc = (IF listingProbe = "listing" THEN "mirror" ELSE "common")

\* C36: whatever the server answers to the probe of .git/, fetch_git does
\* not fail: it goes on with the mirror or with the common files.
C36_ListingProbeNeverFails ==
    listingProbe \in {"listing", "untyped", "other"} => ProbeDecided

\* the part of C36 that holds of the code: every answer but a 200 without
\* Content-Type header
C36_TypedListingProbeNeverFails ==
    listingProbe \in {"listing", "other"} => ProbeDecided

(***************************************************************************)
(* The arguments of the requests (checked under SpecFetch).                *)
(***************************************************************************)
\* the keyword arguments of each session.get of the program: lines 408 and
\* 425 for the probes, 221-226, 260-265, 309-311 and 351-355 for the
\* workers. timeout "default" is the None of requests: no limit.
session_get(caller) ==
    IF caller \in {"probe .git/HEAD", "probe .git/"}
    THEN [allow_redirects |-> FALSE, timeout |-> "default"]
    ELSE [allow_redirects |-> FALSE, timeout |-> "timeout"]

\* the callers that have sent a request: the probes that were answered and
\* the worker class of the run once a task of it has been executed
Requested ==
    (IF headProbe.done THEN {"probe .git/HEAD"} ELSE {})
    \cup (IF listingProbe # "none" THEN {"probe .git/"} ELSE {})
    \cup (IF \E t \in DOMAIN resultsPut : resultsPut[t] > 0 THEN {worker} ELSE {})

\* C37: every request the program has sent had the automatic redirects
\* disabled and carried the timeout argument of fetch_git.
C37_EveryGetHasTimeout ==
    \A caller \in Requested :
       /\ ~session_get(caller).allow_redirects
       /\ session_get(caller).timeout = "timeout"

\* the part of C37 that holds of the code: no request follows redirects,
\* and every request of a worker carries the timeout
C37_WorkerGetsHaveTimeout ==
    \A caller \in Requested :
       /\ ~session_get(caller).allow_redirects
       /\ caller \notin {"probe .git/HEAD", "probe .git/"}
             => session_get(caller).timeout = "timeout"

(***************************************************************************)
(* Properties of the destinations of the tasks in flight (checked under    *)
(* SpecRefs).                                                              *)
(***************************************************************************)
\* two workers that are executing a task at the same moment
InFlightTogether(v, w) == v # w /\ wstate[v] = "running" /\ wstate[w] = "running"

\* C38: two tasks that are in flight together have different destination
\* paths.
C38_InFlightDestinationsDiffer ==
    \A v, w \in Workers :
       InFlightTogether(v, w) => abspath(wtask[v][1]) # abspath(wtask[w][1])

\* the part of C38 that holds of the code: two tasks that are in flight
\* together are different strings
C38_InFlightTasksDiffer ==
    \A v, w \in Workers : InFlightTogether(v, w) => wtask[v][1] # wtask[w][1]

(***************************************************************************)
(* Properties of the scan for hashes (checked under SpecCalls).            *)
(***************************************************************************)
\* a 40-digit token starts at place i of the text: white space or the
\* start of the text before it, white space or the end of the text after
IsTokenAt(text, i) ==
    /\ IsHashAt(text, i)
    /\ i = 1 \/ text[i - 1] \in RegexSpace
    /\ i + HashLen = Len(text) + 1 \/ text[i + HashLen] \in RegexSpace

Tokens(text) ==
    {SubSeq(text, i, i + HashLen - 1) : i \in {j \in DOMAIN text : IsTokenAt(text, j)}}

\* C39: the scan of a text gives every 40-digit token of the text, also
\* the second of two tokens with one space between them, and nothing else.
C39_ScanFindsEveryToken ==
    (call.fn = "scan_hashes" /\ ret.done) => ret.value = Tokens(call.arg)

\* the part of C39 that holds of the code: the scan gives only tokens, and
\* every token but those that follow another token after one white space
C39_ScanFindsOnlyTokens ==
    (call.fn = "scan_hashes" /\ ret.done) =>
       /\ ret.value \subseteq Tokens(call.arg)
       /\ \A i \in DOMAIN call.arg :
             (IsTokenAt(call.arg, i) /\ ~IsTokenAt(call.arg, i - HashLen - 1))
                => SubSeq(call.arg, i, i + HashLen - 1) \in ret.value

(***************************************************************************)
(* Properties of parse_index_file (checked under SpecCalls).               *)
(***************************************************************************)
\* the parser has read every entry from its first byte, has consumed for
\* each a multiple of 8 bytes, the bytes of the entry, and has one hash
\* for each entry
ParsedAligned(index, r) ==
    /\ r.kind = "return"
    /\ Len(r.consumed) = Len(index.entries)
    /\ \A k \in DOMAIN r.consumed :
          /\ r.consumed[k] % 8 = 0
          /\ r.consumed[k] = EntrySize(index.version, index.entries[k])

\* C40: for every well-formed index of version 2 or 3, also with names of
\* 0xFFF bytes and more, parse_index_file consumes a multiple of 8 bytes
\* for every entry, every entry starts at 8-byte alignment and there are
\* as many hashes as entries.
C40_EntriesAligned ==
    (call.fn = "parse_index_file" /\ ret.done) => ParsedAligned(call.arg, ret.value)

\* the part of C40 that holds of the code: the index files whose names are
\* all shorter than 0xFFF bytes
C40_ShortNamesAligned ==
    (/\ call.fn = "parse_index_file"
     /\ ret.done
     /\ \A k \in DOMAIN call.arg.entries : call.arg.entries[k].len < NameLenMask)
    => ParsedAligned(call.arg, ret.value)
====
